---------------------------- MODULE Spec2Model ----------------------------
(***************************************************************************)
(* Model of the Beast messaging adapter (conestoga.beast.adapter), its     *)
(* envelope validator (conestoga.beast.envelope), the HACP interceptor     *)
(* (conestoga.hacp.interceptor) and the trace-context extraction of the    *)
(* observability stack (conestoga.beast.observability).                    *)
(*                                                                         *)
(* JSON values are modelled by shape: every field of an envelope holds a   *)
(* string code saying whether the key is absent, holds a value of the      *)
(* wrong JSON type, or holds a string (then the string itself).            *)
(***************************************************************************)
EXTENDS Integers, Sequences, FiniteSets, TLC

(***************************************************************************)
(* Bounds of the model.                                                    *)
(***************************************************************************)
\* raw messages the environment publishes to the inbox of agent A
MaxInbound == 2
\* application tasks of agent A, each making one request and waiting on it
MaxTasks == 1
\* calls of send_message
MaxSends == 1

(***************************************************************************)
(* Shapes of JSON values.                                                  *)
(***************************************************************************)
\* codes that are not string values of a field
ABSENT == "<absent>"
NONSTR == "<nonstr>"
NONDICT == "<nondict>"
DICT == "<dict>"
\* the empty dict {}, where emptiness matters (metadata)
EMPTY == "<empty>"

IsStr(v) == v \notin {ABSENT, NONSTR, NONDICT, DICT, EMPTY}

\* header.trace_context: absent, not a dict, or a dict whose trace_id and
\* span_id are each absent, a non-string, a hex string or another string
NoTrace == [kind |-> ABSENT, trace_id |-> ABSENT, span_id |-> ABSENT]
HEX == "<hex>"
NONHEX == "<nonhex>"
TraceCtx(t, s) == [kind |-> DICT, trace_id |-> t, span_id |-> s]

\* timestamps: ISO-8601 with offset, ISO-8601 with a Z suffix, or a string
\* datetime.fromisoformat rejects
TS_ISO == "2024-01-01T12:00:00+00:00"
TS_Z == "2024-01-01T12:00:00Z"
TS_BAD == "yesterday"

\* str.replace("Z", "+00:00") on the timestamps of the model
ReplaceZ(ts) == IF ts = TS_Z THEN TS_ISO ELSE ts
\* datetime.fromisoformat succeeds
FromIsoFormatOk(ts) == ts = TS_ISO

(***************************************************************************)
(* A raw message on the wire: text that is JSON or not; if it is JSON, the *)
(* decoded value by shape.                                                 *)
(***************************************************************************)
Raw(json, top, header, sender, timestamp, id, tc, payload, type, cid, metadata) ==
    [json |-> json, top |-> top, header |-> header, sender |-> sender,
     timestamp |-> timestamp, id |-> id, trace_context |-> tc,
     payload |-> payload, type |-> type, correlation_id |-> cid,
     metadata |-> metadata]

\* text that json.loads rejects
NotJson == Raw(FALSE, NONDICT, ABSENT, ABSENT, ABSENT, ABSENT, NoTrace,
               ABSENT, ABSENT, ABSENT, ABSENT)

\* a well-formed envelope, as json.dumps writes it
Envelope(sender, id, type, cid, tc) ==
    Raw(TRUE, DICT, DICT, sender, TS_Z, id, tc, DICT, type, cid, ABSENT)

\* json.loads accepts every text
JsonDecodes_Always(raw) == TRUE

\* json.loads: the decoded value, or a JSONDecodeError
JsonDecodes(raw) == raw.json

(***************************************************************************)
(* conestoga.beast.envelope.validate_envelope: the first violated rule, in *)
(* the order of the code, or "ok".                                         *)
(***************************************************************************)
HeaderFieldError(m, f) ==
    IF m[f] = ABSENT THEN "missing:" \o f
    ELSE IF ~IsStr(m[f]) THEN "notstr:" \o f
    ELSE "ok"

\* the payload is checked before the header
validate_envelope_PayloadFirst(m) ==
    IF m.top # DICT THEN "envelope_not_dict"
    ELSE IF m.payload = ABSENT THEN "missing_payload"
    ELSE IF m.payload # DICT THEN "payload_not_dict"
    ELSE IF m.type = ABSENT THEN "missing_type"
    ELSE IF ~IsStr(m.type) THEN "type_not_str"
    ELSE IF m.header = ABSENT THEN "missing_header"
    ELSE IF m.header # DICT THEN "header_not_dict"
    ELSE IF HeaderFieldError(m, "sender") # "ok" THEN HeaderFieldError(m, "sender")
    ELSE IF HeaderFieldError(m, "timestamp") # "ok" THEN HeaderFieldError(m, "timestamp")
    ELSE IF HeaderFieldError(m, "id") # "ok" THEN HeaderFieldError(m, "id")
    ELSE IF ~FromIsoFormatOk(ReplaceZ(m.timestamp)) THEN "bad_timestamp"
    ELSE IF m.trace_context.kind = NONDICT THEN "trace_context_not_dict"
    ELSE IF m.trace_context.kind = DICT /\ m.trace_context.trace_id = NONSTR
        THEN "trace_id_not_str"
    ELSE IF m.trace_context.kind = DICT /\ m.trace_context.span_id = NONSTR
        THEN "span_id_not_str"
    ELSE IF m.metadata = NONDICT THEN "metadata_not_dict"
    ELSE "ok"

validate_envelope(m) ==
    IF m.top # DICT THEN "envelope_not_dict"
    ELSE IF m.header = ABSENT THEN "missing_header"
    ELSE IF m.header # DICT THEN "header_not_dict"
    ELSE IF HeaderFieldError(m, "sender") # "ok" THEN HeaderFieldError(m, "sender")
    ELSE IF HeaderFieldError(m, "timestamp") # "ok" THEN HeaderFieldError(m, "timestamp")
    ELSE IF HeaderFieldError(m, "id") # "ok" THEN HeaderFieldError(m, "id")
    ELSE IF ~FromIsoFormatOk(ReplaceZ(m.timestamp)) THEN "bad_timestamp"
    ELSE IF m.trace_context.kind = NONDICT THEN "trace_context_not_dict"
    ELSE IF m.trace_context.kind = DICT /\ m.trace_context.trace_id = NONSTR
        THEN "trace_id_not_str"
    ELSE IF m.trace_context.kind = DICT /\ m.trace_context.span_id = NONSTR
        THEN "span_id_not_str"
    ELSE IF m.payload = ABSENT THEN "missing_payload"
    ELSE IF m.payload # DICT THEN "payload_not_dict"
    ELSE IF m.type = ABSENT THEN "missing_type"
    ELSE IF ~IsStr(m.type) THEN "type_not_str"
    ELSE IF m.metadata = NONDICT THEN "metadata_not_dict"
    ELSE "ok"

(***************************************************************************)
(* ObservabilityStack.extract_trace_context: None for an absent or empty   *)
(* trace context, a span context for hex ids, and an exception (KeyError   *)
(* for a missing id, ValueError from int(.., 16) for a non-hex one)        *)
(* otherwise.                                                              *)
(***************************************************************************)
extract_trace_context(m) ==
    LET ctx == m.trace_context IN
    IF ctx.kind = ABSENT \/ (ctx.trace_id = ABSENT /\ ctx.span_id = ABSENT)
        THEN "none"
    ELSE IF ctx.trace_id = ABSENT THEN "KeyError"
    ELSE IF ctx.trace_id # HEX THEN "ValueError"
    ELSE IF ctx.span_id = ABSENT THEN "KeyError"
    ELSE IF ctx.span_id # HEX THEN "ValueError"
    ELSE "span_context"

(***************************************************************************)
(* conestoga.hacp.interceptor: a chain of policy predicates.  The policies *)
(* themselves are supplied by the application; the model has three.        *)
(***************************************************************************)
PolicyAllows(p, m, direction) ==
    CASE p = "allow_all" -> TRUE
      [] p = "no_secret" -> m.type # "secret"
      [] p = "inbound_only" -> direction = "in"

\* HACPInterceptor.intercept: TRUE when it returns the message, FALSE when
\* it raises HACPViolationError
RECURSIVE intercept(_, _, _)
intercept(policies, m, direction) ==
    IF policies = <<>> THEN TRUE
    ELSE IF ~PolicyAllows(Head(policies), m, direction) THEN FALSE
    ELSE intercept(Tail(policies), m, direction)


(***************************************************************************)
(* The bus and the agents.                                                 *)
(***************************************************************************)
Agents == {"A", "B"}
Tasks == 1..MaxTasks

Inbox(a) == "beast:agent:" \o a \o ":inbox"
ANNOUNCEMENTS == "beast:global:announcements"
MESSAGES == "beast:global:messages"
HEARTBEAT == "beast:global:heartbeat"

\* the loop subscribes to the global messages channel as well
Subscriptions_WithMessages(a) == {Inbox(a), ANNOUNCEMENTS, MESSAGES}

\* the channels _subscribe and _async_subscribe subscribe to
Subscriptions(a) == {Inbox(a), ANNOUNCEMENTS}

Types == {"ping", "reply", "secret", "greet", "greet-reply"}
MetricLabels == (Types \cup {"invalid", "unknown"}) \X {"in", "out"}

\* str(uuid.uuid4()): the i-th identifier drawn
Uuid(i) == "u" \o ToString(i)

\* message.get("payload")
PayloadOf(m) == [type |-> m.type, correlation_id |-> m.correlation_id]

NoInterceptor == [present |-> FALSE, policies |-> <<>>]
Interceptor(policies) == [present |-> TRUE, policies |-> policies]

EmptyMap == [x \in {} |-> ""]
\* d[k] = v only where d has no k yet
MapPut_KeepsFirst(f, k, v) ==
    [x \in DOMAIN f \cup {k} |-> IF x \in DOMAIN f THEN f[x] ELSE v]
\* d[k] = v
MapPut(f, k, v) == [x \in DOMAIN f \cup {k} |-> IF x = k THEN v ELSE f[x]]
MapPop(f, k) == [x \in DOMAIN f \ {k} |-> f[x]]

VARIABLES
    config,           \* per agent: observability, hacp_interceptor, execution model
    handlers,         \* per agent: self.handlers, payload type -> handler
    pending_replies,  \* per agent: self.pending_replies, correlation id -> waiting task
    subscribed,       \* the agents whose receive loop has subscribed
    stream,           \* per agent: messages delivered to its pubsub, oldest first
    arrivals,         \* per agent: number of messages delivered to its pubsub so far
    rx,               \* per agent: "listen", or "in_handler" while the loop awaits a handler
    active,           \* per agent: the handler invocations that have not returned
    calls,            \* per agent: every handler invocation made, in order
    last,             \* per agent: the message the loop took last (none: <<>>) and what became of it
    messages_total,   \* per agent: the counter messages_total{type,direction}
    hacp_violations,  \* per agent: the counter hacp_violations
    published,        \* every publish an adapter made: who, channel, data
    tasks,            \* application tasks of agent A using the asynchronous API
    send_result,      \* per agent: how the last send_message call ended
    next_uuid,        \* uuids drawn so far
    ninbound,         \* messages the environment has published
    nsends            \* send_message calls made

\* the connection, the threads and the receive loops of agent A, for the
\* specifications of connect, start and stop
VARIABLES
    is_connected,       \* self.is_connected
    redis_up,           \* the Redis server can be reached
    connection_status,  \* the gauge connection_status (-1: never set)
    threads,            \* per thread: where it is in connect() or in heartbeat_task
    loops,              \* the receive loops created so far, in order of creation
    subscribe_task,     \* self._subscribe_task: index into loops, 0 for None
    halted,             \* async_stop has returned and nothing was started since
    stop_waiters,       \* the tasks that were waiting for a reply at the last async_stop
    stop_result,        \* how the last async_stop call ended
    ncalls,             \* connect(), start() and async_start() calls made
    nstops,             \* async_stop() calls made
    nflips              \* changes of redis_up

\* what the application and the threads did, in the order they did it, and
\* the call of a function of the envelope or interceptor module under study
VARIABLES
    registered,   \* the register_handler calls made: type and handler, in order
    pipeline,     \* the steps of the last send call, in the order the code ran them
    beats,        \* what the heartbeat threads published: channel and data
    fn,           \* the function called last ("none": no call yet)
    fn_args,      \* the arguments of that call
    fn_result,    \* what the call returned or raised (<<>>: still running)
    evaluated     \* the policies the running intercept call has evaluated, in order

purevars == <<fn, fn_args, fn_result, evaluated>>
auxvars == <<registered, pipeline, beats, purevars>>

lifevars == <<is_connected, redis_up, connection_status, threads, loops,
              subscribe_task, halted, stop_waiters, stop_result, ncalls, nstops,
              nflips>>

vars == <<config, handlers, pending_replies, subscribed, stream, arrivals, rx,
          active, calls, last, messages_total, hacp_violations, published,
          tasks, send_result, next_uuid, ninbound, nsends, lifevars, auxvars>>

Observability(a) == config[a].observability
Hacp(a) == config[a].hacp_interceptor

NoLast == [n |-> 0, outcome |-> "none", data |-> <<>>]
IdleTask == [pc |-> "idle", type |-> ABSENT, cid |-> ABSENT, result |-> <<>>,
             error |-> "none"]

Inc(counter, label) == [counter EXCEPT ![label] = @ + 1]

(***************************************************************************)
(* The receive path.  handle_message and async_handle_message give what    *)
(* becomes of one raw message:                                             *)
(*   decode_error  json.loads raised, logged                               *)
(*   invalid       validate_envelope raised, counted as type=invalid       *)
(*   denied        the interceptor raised HACPViolationError               *)
(*   resolved      the pending reply of its correlation id took it         *)
(*   invalid_state its slot was popped, set_result raised on the cancelled *)
(*                 future, caught by the outer except Exception and logged *)
(*   error         an exception after interception, caught by the outer    *)
(*                 except Exception and logged                             *)
(*   dispatched    its type handler was invoked                            *)
(*   no_handler    no handler for its type, a warning is logged            *)
(*   handler_raised  its type handler was invoked and raised: the          *)
(*                 exception is caught by the outer except Exception and   *)
(*                 logged                                                  *)
(***************************************************************************)
\* the inbound policy chain is never consulted
InboundDenied_Never(a, m) == FALSE

InboundDenied(a, m) ==
    Hacp(a).present /\ ~intercept(Hacp(a).policies, m, "in")

dispatch_message(a, m) ==
    IF m.type \in DOMAIN handlers[a] THEN "dispatched" ELSE "no_handler"

handle_message(a, m) ==
    IF ~JsonDecodes(m) THEN "decode_error"
    ELSE IF validate_envelope(m) # "ok" THEN "invalid"
    ELSE IF InboundDenied(a, m) THEN "denied"
    ELSE IF Observability(a)
            /\ extract_trace_context(m) \in {"KeyError", "ValueError"}
        THEN "error"
    ELSE dispatch_message(a, m)

\* correlation_id and correlation_id in self.pending_replies
MatchesPending(a, m) ==
    /\ m.correlation_id # ABSENT
    /\ m.correlation_id # ""
    /\ m.correlation_id \in DOMAIN pending_replies[a]

async_dispatch_message(a, m) ==
    IF m.type \in DOMAIN handlers[a] THEN "dispatched" ELSE "no_handler"

\* the cooperative path without the check of the pending replies
async_handle_message_NoCorrelation(a, m) ==
    IF ~JsonDecodes(m) THEN "decode_error"
    ELSE IF validate_envelope(m) # "ok" THEN "invalid"
    ELSE IF InboundDenied(a, m) THEN "denied"
    ELSE async_dispatch_message(a, m)

\* the future in the slot of m's correlation id was cancelled, by the timeout
\* of asyncio.wait_for or with the waiting task: future.set_result raises
\* InvalidStateError
SlotCancelled(a, m) ==
    tasks[pending_replies[a][m.correlation_id]].pc \in {"cancelled", "aborted"}

async_handle_message(a, m) ==
    IF ~JsonDecodes(m) THEN "decode_error"
    ELSE IF validate_envelope(m) # "ok" THEN "invalid"
    ELSE IF InboundDenied(a, m) THEN "denied"
    ELSE IF MatchesPending(a, m)
        THEN IF SlotCancelled(a, m) THEN "invalid_state" ELSE "resolved"
    ELSE async_dispatch_message(a, m)

\* an invalid envelope is not counted
InboundCounted_SkipsInvalid(a, m, outcome) ==
    IF ~Observability(a) THEN messages_total[a]
    ELSE IF outcome \in {"error", "dispatched", "no_handler"}
        THEN Inc(messages_total[a], <<m.type, "in">>)
    ELSE messages_total[a]

\* messages_total after one inbound message: the thread path increments it
\* before it extracts the trace context
InboundCounted(a, m, outcome) ==
    IF ~Observability(a) THEN messages_total[a]
    ELSE IF outcome = "invalid" THEN Inc(messages_total[a], <<"invalid", "in">>)
    ELSE IF outcome \in {"error", "dispatched", "no_handler"}
        THEN Inc(messages_total[a], <<m.type, "in">>)
    ELSE messages_total[a]

\* hacp_violations after one inbound message
InboundViolations(a, outcome) ==
    IF outcome = "denied" /\ Observability(a)
        THEN hacp_violations[a] + 1
        ELSE hacp_violations[a]

\* the loop does not wait for the handling of the message before
LoopReady_NoAwait(a) == TRUE

\* the loop takes the next message only when the handling of the one before
\* has returned: _handle_message is called, _async_handle_message awaited
LoopReady(a) == rx[a] = "listen"

\* what a handler is called with: _dispatch_message passes the envelope,
\* _async_dispatch_message passes message.get("payload")
HandlerArgument(mode) == IF mode = "thread" THEN "message" ELSE "payload"

\* the handler gets the envelope in the thread path, its payload in the
\* cooperative path
Invocation(a, item) ==
    [handler |-> handlers[a][item.data.type],
     arg |-> HandlerArgument(config[a].mode),
     n |-> item.n, data |-> item.data]

\* what calls keeps of an invocation
Call(a, item) ==
    [handler |-> Invocation(a, item).handler, arg |-> Invocation(a, item).arg,
     n |-> item.n]

\* one iteration of _subscribe or _async_subscribe, up to the call of the
\* handler
Receive(a) ==
    /\ UNCHANGED lifevars
    /\ UNCHANGED auxvars
    /\ a \in subscribed
    /\ LoopReady(a)
    /\ stream[a] # <<>>
    /\ LET item == Head(stream[a])
           m == item.data
           outcome == IF config[a].mode = "thread"
                          THEN handle_message(a, m)
                          ELSE async_handle_message(a, m)
       IN
       /\ stream' = [stream EXCEPT ![a] = Tail(@)]
       /\ last' = [last EXCEPT ![a] = [n |-> item.n, outcome |-> outcome, data |-> <<m>>]]
       /\ messages_total' = [messages_total EXCEPT ![a] = InboundCounted(a, m, outcome)]
       /\ hacp_violations' = [hacp_violations EXCEPT ![a] = InboundViolations(a, outcome)]
       /\ IF outcome = "resolved"
             THEN /\ pending_replies' =
                        [pending_replies EXCEPT ![a] = MapPop(@, m.correlation_id)]
                  /\ tasks' = [tasks EXCEPT
                        ![pending_replies[a][m.correlation_id]] =
                            [@ EXCEPT !.pc = "returned", !.result = <<PayloadOf(m)>>]]
             ELSE IF outcome = "invalid_state"
             THEN /\ pending_replies' =
                        [pending_replies EXCEPT ![a] = MapPop(@, m.correlation_id)]
                  /\ UNCHANGED tasks
             ELSE UNCHANGED <<pending_replies, tasks>>
       /\ IF outcome = "dispatched"
             THEN /\ calls' = [calls EXCEPT ![a] = Append(@, Call(a, item))]
                  /\ active' = [active EXCEPT ![a] = Append(@, Invocation(a, item))]
                  /\ rx' = [rx EXCEPT ![a] = "in_handler"]
             ELSE UNCHANGED <<calls, active, rx>>
    /\ UNCHANGED <<config, handlers, subscribed, arrivals, published,
                   send_result, next_uuid, ninbound, nsends>>

\* the handler returns (or raises: the exception is caught and logged)
HandlerReturn(a) ==
    /\ UNCHANGED lifevars
    /\ UNCHANGED auxvars
    /\ active[a] # <<>>
    /\ Head(active[a]).handler # "greet_handler"
    /\ active' = [active EXCEPT ![a] = Tail(@)]
    /\ rx' = [rx EXCEPT ![a] = IF Tail(active[a]) = <<>> THEN "listen" ELSE "in_handler"]
    /\ UNCHANGED <<config, handlers, pending_replies, subscribed, stream,
                   arrivals, calls, last, messages_total, hacp_violations,
                   published, tasks, send_result, next_uuid, ninbound, nsends>>

\* register_handler calls in one run
MaxRegistrations == 3

\* register_handler and async_register_handler; registered keeps the call
\* and whether the receive loop of a had subscribed by then
register_handler(a, type, handler) ==
    /\ UNCHANGED lifevars
    /\ UNCHANGED <<pipeline, beats, purevars>>
    /\ Len(registered) < MaxRegistrations
    /\ registered' = Append(registered,
           [agent |-> a, type |-> type, handler |-> handler,
            started |-> a \in subscribed])
    /\ handlers' = [handlers EXCEPT ![a] = MapPut(@, type, handler)]
    /\ UNCHANGED <<config, pending_replies, subscribed, stream, arrivals, rx,
                   active, calls, last, messages_total, hacp_violations,
                   published, tasks, send_result, next_uuid, ninbound, nsends>>

(***************************************************************************)
(* The bus: redis publish hands the data to every pubsub subscribed to the *)
(* channel; a channel nobody subscribes to drops it.                       *)
(***************************************************************************)
Deliver(channel, data) ==
    LET gets(b) == b \in subscribed /\ channel \in Subscriptions(b) IN
    /\ stream' = [b \in Agents |->
            IF gets(b)
                THEN Append(stream[b],
                            [channel |-> channel, n |-> arrivals[b] + 1, data |-> data])
                ELSE stream[b]]
    /\ arrivals' = [b \in Agents |-> IF gets(b) THEN arrivals[b] + 1 ELSE arrivals[b]]

Publish(a, channel, data) ==
    /\ published' = Append(published, [by |-> a, channel |-> channel, data |-> data])
    /\ Deliver(channel, data)

(***************************************************************************)
(* The send paths.                                                         *)
(***************************************************************************)
\* the outbound policy chain is never consulted
OutboundDenied_Never(a, m) == FALSE

OutboundDenied(a, m) ==
    Hacp(a).present /\ ~intercept(Hacp(a).policies, m, "out")

\* ObservabilityStack.inject_trace_context
inject_trace_context(m) ==
    [m EXCEPT !.header = DICT, !.trace_context = TraceCtx(HEX, HEX)]

\* message.get("payload", {}).get("type", "unknown")
TypeLabel(m) ==
    IF m.payload = DICT /\ m.type # ABSENT THEN m.type ELSE "unknown"

\* the publish comes before the trace context is injected
SendSteps_PublishFirst(a, to, m, transport_ok) ==
    <<[step |-> "call", to |-> to, on |-> m]>>
    \o (IF Hacp(a).present THEN <<[step |-> "intercept", on |-> m]>> ELSE <<>>)
    \o (IF OutboundDenied(a, m) THEN <<>>
        ELSE <<[step |-> IF transport_ok THEN "publish" ELSE "publish_raised", on |-> m]>>
             \o (IF Observability(a)
                    THEN <<[step |-> "inject", on |-> m],
                           [step |-> "metric", on |-> inject_trace_context(m)]>>
                    ELSE <<>>))

\* the steps both send paths take on message m, in the order of the code, each
\* with the message it works on: the call (to is the target_agent argument,
\* which send_message does not have), the outbound interceptor, with an
\* observability stack the injection and the counter, the redis publish
SendSteps(a, to, m, transport_ok) ==
    LET out == IF Observability(a) THEN inject_trace_context(m) ELSE m IN
    <<[step |-> "call", to |-> to, on |-> m]>>
    \o (IF Hacp(a).present THEN <<[step |-> "intercept", on |-> m]>> ELSE <<>>)
    \o (IF OutboundDenied(a, m) THEN <<>>
        ELSE (IF Observability(a)
                 THEN <<[step |-> "inject", on |-> m], [step |-> "metric", on |-> out]>>
                 ELSE <<>>)
             \o <<[step |-> IF transport_ok THEN "publish" ELSE "publish_raised",
                    on |-> out]>>)

\* send_message(message); transport_ok says whether redis publish succeeds or
\* raises ConnectionError.  The call always returns None: send_result keeps
\* what it did, the exception the caller saw and the caller's message as the
\* call left it.
send_message(a, m, transport_ok) ==
    /\ pipeline' = SendSteps(a, ABSENT, m, transport_ok)
    /\ IF OutboundDenied(a, m)
       THEN /\ hacp_violations' = [hacp_violations EXCEPT
                   ![a] = IF Observability(a) THEN @ + 1 ELSE @]
            /\ send_result' = [send_result EXCEPT
                   ![a] = [did |-> "blocked", raised |-> "none", data |-> <<m>>]]
            /\ UNCHANGED <<messages_total, published, stream, arrivals>>
       ELSE LET out == IF Observability(a) THEN inject_trace_context(m) ELSE m IN
            /\ messages_total' = [messages_total EXCEPT
                   ![a] = IF Observability(a) THEN Inc(@, <<TypeLabel(out), "out">>) ELSE @]
            /\ UNCHANGED hacp_violations
            /\ IF transport_ok
                  THEN /\ Publish(a, MESSAGES, out)
                       /\ send_result' = [send_result EXCEPT
                              ![a] = [did |-> "published", raised |-> "none", data |-> <<out>>]]
                  ELSE /\ UNCHANGED <<published, stream, arrivals>>
                       /\ send_result' = [send_result EXCEPT
                              ![a] = [did |-> "connection_error", raised |-> "none", data |-> <<out>>]]

\* create_envelope(sender, message_type, payload, message_id, {"recipient": ..})
\* with payload["correlation_id"] = cid
create_envelope(sender, type, cid) ==
    [Envelope(sender, "id-" \o cid, type, cid, NoTrace) EXCEPT !.metadata = DICT]

\* the uuid async_send_message draws for the correlation id
NewCorrelationId == Uuid(next_uuid + 1)

\* how async_send_message ends once it has built the envelope m
EnvelopeOutcome(a, m, transport_ok) ==
    IF OutboundDenied(a, m) THEN "HACPViolationError"
    ELSE IF transport_ok THEN "returned"
    ELSE "ConnectionError"

\* how async_send_message(target, message_type, payload) ends
AsyncSendOutcome(a, type, transport_ok) ==
    EnvelopeOutcome(a, create_envelope(a, type, NewCorrelationId), transport_ok)

\* async_send_message from message = envelope.to_dict() on
async_send_envelope(a, target, type, m, transport_ok) ==
    LET outcome == EnvelopeOutcome(a, m, transport_ok)
        out == IF Observability(a) THEN inject_trace_context(m) ELSE m
    IN
    /\ pipeline' = SendSteps(a, target, m, transport_ok)
    /\ next_uuid' = next_uuid + 1
    /\ hacp_violations' = [hacp_violations EXCEPT
           ![a] = IF outcome = "HACPViolationError" /\ Observability(a) THEN @ + 1 ELSE @]
    /\ messages_total' = [messages_total EXCEPT
           ![a] = IF outcome # "HACPViolationError" /\ Observability(a)
                      THEN Inc(@, <<type, "out">>) ELSE @]
    /\ IF outcome = "returned"
          THEN Publish(a, Inbox(target), out)
          ELSE UNCHANGED <<published, stream, arrivals>>

\* async_send_message(target, message_type, payload): whatever correlation
\* id the payload carried is overwritten by the fresh one
async_send_message(a, target, type, transport_ok) ==
    async_send_envelope(a, target, type,
                        create_envelope(a, type, NewCorrelationId), transport_ok)

(***************************************************************************)
(* Application tasks of agent A on the asynchronous API.  A task is        *)
(*   idle      before its call                                             *)
(*   sent      suspended in async_send_message after the publish           *)
(*   raised    async_send_message raised (error says what)                 *)
(*   waiting   suspended in async_wait_for_reply                           *)
(*   cancelled still suspended there: asyncio.wait_for has timed out and   *)
(*             cancelled the future, the task has not run since            *)
(*   aborted   the task was cancelled while it waited: CancelledError left *)
(*             async_wait_for_reply, the future is cancelled               *)
(*   returned  async_wait_for_reply returned result                        *)
(*   timedout  async_wait_for_reply raised TimeoutError                    *)
(***************************************************************************)
Requester == "A"
\* message types the tasks send
RequestTypes == {"greet", "secret"}

\* tasks are numbered in the order of their calls of async_send_message
AsyncSend(t, target, type) ==
    /\ UNCHANGED lifevars
    /\ UNCHANGED <<registered, beats, purevars>>
    /\ tasks[t].pc = "idle"
    /\ \A s \in Tasks : s < t => tasks[s].pc # "idle"
    /\ \E transport_ok \in BOOLEAN :
          LET outcome == AsyncSendOutcome(Requester, type, transport_ok) IN
          /\ async_send_message(Requester, target, type, transport_ok)
          /\ tasks' = [tasks EXCEPT ![t] =
                IF outcome = "returned"
                    THEN [@ EXCEPT !.pc = "sent", !.type = type, !.cid = NewCorrelationId]
                    ELSE [@ EXCEPT !.pc = "raised", !.type = type, !.error = outcome]]
    /\ UNCHANGED <<config, handlers, pending_replies, subscribed, rx, active,
                   calls, last, send_result, ninbound, nsends>>

\* async_wait_for_reply up to its await: the slot is registered
async_wait_for_reply(a, t, cid) ==
    /\ pending_replies' = [pending_replies EXCEPT ![a] = MapPut(@, cid, t)]
    /\ tasks' = [tasks EXCEPT ![t] = [@ EXCEPT !.pc = "waiting", !.cid = cid]]

\* the task resumes after the publish, gets the correlation id and waits on it
WaitForReply(t) ==
    /\ UNCHANGED lifevars
    /\ UNCHANGED auxvars
    /\ tasks[t].pc = "sent"
    /\ async_wait_for_reply(Requester, t, tasks[t].cid)
    /\ UNCHANGED <<config, handlers, subscribed, stream, arrivals, rx, active,
                   calls, last, messages_total, hacp_violations, published,
                   send_result, next_uuid, ninbound, nsends>>

\* the timeout is raised to the caller and the slot is left in the table
WaitTimeout_KeepsSlot(t) ==
    /\ UNCHANGED lifevars
    /\ UNCHANGED auxvars
    /\ tasks[t].pc = "cancelled"
    /\ tasks' = [tasks EXCEPT ![t] = [@ EXCEPT !.pc = "timedout", !.error = "TimeoutError"]]
    /\ UNCHANGED <<config, handlers, pending_replies, subscribed, stream, arrivals,
                   rx, active, calls, last, messages_total, hacp_violations,
                   published, send_result, next_uuid, ninbound, nsends>>

\* the timeout of asyncio.wait_for elapses: it cancels the future and the
\* task is scheduled to run again
TimeoutFires(t) ==
    /\ UNCHANGED lifevars
    /\ UNCHANGED auxvars
    /\ tasks[t].pc = "waiting"
    /\ tasks' = [tasks EXCEPT ![t] = [@ EXCEPT !.pc = "cancelled"]]
    /\ UNCHANGED <<config, handlers, pending_replies, subscribed, stream, arrivals,
                   rx, active, calls, last, messages_total, hacp_violations,
                   published, send_result, next_uuid, ninbound, nsends>>

\* the task runs again: wait_for raises TimeoutError into it and its except
\* clause pops the slot, if it is still there
WaitTimeout(t) ==
    /\ UNCHANGED lifevars
    /\ UNCHANGED auxvars
    /\ tasks[t].pc = "cancelled"
    /\ pending_replies' = [pending_replies EXCEPT ![Requester] = MapPop(@, tasks[t].cid)]
    /\ tasks' = [tasks EXCEPT ![t] = [@ EXCEPT !.pc = "timedout", !.error = "TimeoutError"]]
    /\ UNCHANGED <<config, handlers, subscribed, stream, arrivals, rx, active,
                   calls, last, messages_total, hacp_violations, published,
                   send_result, next_uuid, ninbound, nsends>>

\* a dict with a payload and no header, as a caller may pass to send_message
PayloadOnly(type) ==
    Raw(TRUE, DICT, ABSENT, ABSENT, ABSENT, ABSENT, NoTrace, DICT, type,
        ABSENT, ABSENT)

\* the messages the application passes to send_message
Outgoing(a) ==
    {Envelope(a, "out-1", "ping", ABSENT, NoTrace),
     Envelope(a, "out-2", "secret", ABSENT, NoTrace),
     PayloadOnly("ping")}

SendMessage(a, m) ==
    /\ UNCHANGED lifevars
    /\ UNCHANGED <<registered, beats, purevars>>
    /\ nsends < MaxSends
    /\ nsends' = nsends + 1
    /\ \E transport_ok \in BOOLEAN : send_message(a, m, transport_ok)
    /\ UNCHANGED <<config, handlers, pending_replies, subscribed, rx, active,
                   calls, last, tasks, next_uuid, ninbound>>

(***************************************************************************)
(* The environment: peers publish on the channels agent A subscribes to.   *)
(***************************************************************************)
Peer == "peer"
HeaderMissing ==
    Raw(TRUE, DICT, ABSENT, ABSENT, ABSENT, ABSENT, NoTrace, ABSENT, ABSENT,
        ABSENT, ABSENT)

InboundRaw ==
    {NotJson, HeaderMissing}
    \cup {Envelope(Peer, "in-1", "ping", ABSENT, tc) :
            tc \in {NoTrace, TraceCtx(HEX, HEX), TraceCtx(NONHEX, HEX),
                    TraceCtx(HEX, ABSENT)}}
    \cup {Envelope(Peer, "in-2", type, Uuid(i), NoTrace) :
            type \in {"reply", "secret"}, i \in 1..MaxTasks}
    \cup {Envelope(Peer, "in-3", "greet", ABSENT, TraceCtx(HEX, ABSENT))}

\* a peer answers only requests that were made: the correlation ids it can
\* send are those drawn so far
Answerable(raw) ==
    raw.correlation_id \in {ABSENT} \cup {Uuid(i) : i \in 1..next_uuid}

Inject(channel, raw) ==
    /\ UNCHANGED lifevars
    /\ UNCHANGED auxvars
    /\ ninbound < MaxInbound
    /\ Answerable(raw)
    /\ ninbound' = ninbound + 1
    /\ Deliver(channel, raw)
    /\ UNCHANGED <<config, handlers, pending_replies, subscribed, rx, active,
                   calls, last, messages_total, hacp_violations, published,
                   tasks, send_result, next_uuid, nsends>>

(***************************************************************************)
(* Connection, heartbeat, start and stop of agent A.  connect() runs in    *)
(* the thread that called it (the application's, thread APP, or a          *)
(* heartbeat thread that lost the connection); every successful connect    *)
(* starts a heartbeat thread.  A thread is                                 *)
(*   none     not started (a heartbeat slot) or not in a call (APP)        *)
(*   connect  in the while loop of connect()                               *)
(*   beat     in the while loop of heartbeat_task                          *)
(*   failed   in the except clause of heartbeat_task, status already set   *)
(*   exited   heartbeat_task returned: is_connected was false              *)
(*   dead     ended by an exception nothing caught                         *)
(***************************************************************************)
\* failures within one connect() call
MaxFailures == 7
\* failures within one connect() call where start and stop are studied
LifeFailures == 1
\* messages published to agent A where start and stop are studied
LifeInbound == 1
\* heartbeat threads started
MaxHeartbeats == 2
\* times the server goes down or comes back
MaxFlips == 2
\* connect(), start() and async_start() calls
MaxCalls == 2
\* async_stop() calls
MaxStops == 2

\* retry_delay = 1
InitialDelay == 1
\* min(retry_delay * 2, 30)
MaxDelay == 30

Min(x, y) == IF x < y THEN x ELSE y

\* the delay doubles without a cap
NextDelay_NoCap(d) == d * 2

\* retry_delay = min(retry_delay * 2, 30)
NextDelay(d) == Min(d * 2, MaxDelay)

APP == 0
HeartbeatIds == 1..MaxHeartbeats
ThreadIds == {APP} \cup HeartbeatIds
Ops == {"connect", "start", "async_start"}

\* slept: the delays time.sleep was called with in the thread's current (or
\* last) connect() call
NoThread == [pc |-> "none", op |-> "none", retry_delay |-> InitialDelay, slept |-> <<>>]

HasFreeSlot == \E h \in HeartbeatIds : threads[h].pc = "none"
FreeSlot == CHOOSE h \in HeartbeatIds :
                /\ threads[h].pc = "none"
                /\ \A g \in HeartbeatIds : threads[g].pc = "none" => h <= g

\* _start_heartbeat: threading.Thread(target=heartbeat_task).start()
start_heartbeat(thr) ==
    [thr EXCEPT ![FreeSlot] = [NoThread EXCEPT !.pc = "beat", !.op = "heartbeat"]]

\* A receive loop is
\*   starting   created, has not subscribed yet
\*   listening  subscribed, takes messages
\*   done       returned
\*   cancelled  its task was cancelled
\*   failed     ended by an exception
NewLoop(kind) == [kind |-> kind, state |-> "starting", stream |-> <<>>]

\* what start() and async_start() do once connect() has returned: the
\* subscribe thread, or the task kept in self._subscribe_task
SpawnLoop(op) ==
    /\ loops' = IF op = "start" THEN Append(loops, NewLoop("thread"))
                ELSE IF op = "async_start" THEN Append(loops, NewLoop("coop"))
                ELSE loops
    /\ subscribe_task' = IF op = "async_start" THEN Len(loops) + 1 ELSE subscribe_task

\* connect() returns to the code that called it
ConnectReturns(id, thr) ==
    IF id = APP
        THEN /\ threads' = [thr EXCEPT ![APP].pc = "none"]
             /\ SpawnLoop(thr[APP].op)
        ELSE /\ threads' = [thr EXCEPT ![id].pc = "beat"]
             /\ UNCHANGED <<loops, subscribe_task>>

\* the variables the connection and the threads do not touch
busvars == <<subscribed, stream, arrivals, rx, active, published, send_result,
             nsends, registered, pipeline, purevars>>
msgvars == <<config, handlers, pending_replies, calls, last, messages_total,
             hacp_violations, tasks, next_uuid, ninbound>>

\* the application calls connect(), start() or async_start()
AppCall(op) ==
    /\ threads[APP].pc = "none"
    /\ ncalls < MaxCalls
    /\ ncalls' = ncalls + 1
    /\ halted' = FALSE
    /\ stop_waiters' = {}
    /\ IF is_connected
          THEN ConnectReturns(APP, [threads EXCEPT ![APP].op = op])
          ELSE /\ threads' = [threads EXCEPT ![APP] =
                      [pc |-> "connect", op |-> op, retry_delay |-> InitialDelay,
                       slept |-> <<>>]]
               /\ UNCHANGED <<loops, subscribe_task>>
    /\ UNCHANGED <<is_connected, redis_up, connection_status, stop_result,
                   nstops, nflips, busvars, beats, msgvars>>

\* connect() gives up when the server cannot be reached: it returns to its
\* caller without a connection
ConnectTry_GivesUp(id, limit) ==
    /\ threads[id].pc = "connect"
    /\ IF is_connected
          THEN /\ ConnectReturns(id, threads)
               /\ UNCHANGED is_connected
          ELSE IF redis_up
          THEN /\ HasFreeSlot
               /\ is_connected' = TRUE
               /\ ConnectReturns(id, start_heartbeat(threads))
          ELSE /\ Len(threads[id].slept) < limit
               /\ ConnectReturns(id, [threads EXCEPT
                      ![id].slept = Append(@, threads[id].retry_delay),
                      ![id].retry_delay = NextDelay(@)])
               /\ UNCHANGED is_connected
    /\ UNCHANGED <<redis_up, connection_status, halted, stop_waiters, stop_result, ncalls,
                   nstops, nflips, busvars, beats, msgvars>>

\* one iteration of the while loop of connect() in thread id; limit bounds
\* the failures of one call
ConnectTry(id, limit) ==
    /\ threads[id].pc = "connect"
    /\ IF is_connected
          THEN /\ ConnectReturns(id, threads)
               /\ UNCHANGED is_connected
          ELSE IF redis_up
          THEN /\ HasFreeSlot
               /\ is_connected' = TRUE
               /\ ConnectReturns(id, start_heartbeat(threads))
          ELSE /\ Len(threads[id].slept) < limit
               /\ threads' = [threads EXCEPT
                      ![id].slept = Append(@, threads[id].retry_delay),
                      ![id].retry_delay = NextDelay(@)]
               /\ UNCHANGED <<is_connected, loops, subscribe_task>>
    /\ UNCHANGED <<redis_up, connection_status, halted, stop_waiters, stop_result, ncalls,
                   nstops, nflips, busvars, beats, msgvars>>

\* redis.exceptions: what a publish raises when the server cannot be reached
TransportErrors == {"ConnectionError", "TimeoutError"}

\* one iteration of the while loop of heartbeat_task: the loop ends when
\* is_connected is false; a publish that raises ConnectionError is caught,
\* TimeoutError is not a ConnectionError and ends the thread.  The publish
\* goes to the heartbeat channel with the agent id as its data
HeartbeatBeat(id) ==
    /\ threads[id].pc = "beat"
    /\ IF ~is_connected
          THEN /\ threads' = [threads EXCEPT ![id].pc = "exited"]
               /\ UNCHANGED <<connection_status, beats, stream, arrivals>>
          ELSE IF redis_up
          THEN /\ beats' = beats \cup {[channel |-> HEARTBEAT, data |-> Requester]}
               /\ Deliver(HEARTBEAT, Requester)
               /\ connection_status' = IF Observability(Requester) THEN 1
                                       ELSE connection_status
               /\ UNCHANGED threads
          ELSE \E err \in TransportErrors :
                  IF err = "ConnectionError"
                     THEN /\ connection_status' = IF Observability(Requester) THEN 0
                                                  ELSE connection_status
                          /\ threads' = [threads EXCEPT ![id].pc = "failed"]
                          /\ UNCHANGED <<beats, stream, arrivals>>
                     ELSE /\ threads' = [threads EXCEPT ![id].pc = "dead"]
                          /\ UNCHANGED <<connection_status, beats, stream, arrivals>>
    /\ UNCHANGED <<is_connected, redis_up, loops, subscribe_task, halted, stop_waiters,
                   stop_result, ncalls, nstops, nflips, msgvars, subscribed, rx,
                   active, published, send_result, nsends, registered, pipeline,
                   purevars>>

\* the rest of the except clause: self.is_connected = False; self.connect()
HeartbeatReconnect(id) ==
    /\ threads[id].pc = "failed"
    /\ is_connected' = FALSE
    /\ threads' = [threads EXCEPT ![id] =
           [@ EXCEPT !.pc = "connect", !.retry_delay = InitialDelay, !.slept = <<>>]]
    /\ UNCHANGED <<redis_up, connection_status, loops, subscribe_task, halted, stop_waiters,
                   stop_result, ncalls, nstops, nflips, busvars, beats, msgvars>>

\* the server goes down or comes back
TransportFlip ==
    /\ nflips < MaxFlips
    /\ nflips' = nflips + 1
    /\ redis_up' = ~redis_up
    /\ UNCHANGED <<is_connected, connection_status, threads, loops,
                   subscribe_task, halted, stop_waiters, stop_result, ncalls, nstops,
                   busvars, beats, msgvars>>

(***************************************************************************)
(* The receive loops of agent A.  Every loop has its own pubsub; a publish *)
(* on the inbox reaches every pubsub that is subscribed.                   *)
(***************************************************************************)
\* pubsub.subscribe(...) at the start of _subscribe and _async_subscribe,
\* outside any try: a server that cannot be reached ends the loop
LoopSubscribe(l) ==
    /\ l \in DOMAIN loops
    /\ loops[l].state = "starting"
    /\ loops' = [loops EXCEPT ![l].state = IF redis_up THEN "listening" ELSE "failed"]
    /\ UNCHANGED <<is_connected, redis_up, connection_status, threads,
                   subscribe_task, halted, stop_waiters, stop_result, ncalls, nstops, nflips,
                   busvars, beats, msgvars>>

\* while self.is_connected: the cooperative loop returns when the flag is
\* false; the thread loop has no such test
LoopExit(l) ==
    /\ l \in DOMAIN loops
    /\ loops[l].state = "listening"
    /\ loops[l].kind = "coop"
    /\ ~is_connected
    /\ loops' = [loops EXCEPT ![l].state = "done"]
    /\ UNCHANGED <<is_connected, redis_up, connection_status, threads,
                   subscribe_task, halted, stop_waiters, stop_result, ncalls, nstops, nflips,
                   busvars, beats, msgvars>>

\* reading from the pubsub raises: the cooperative loop catches it and
\* breaks, the thread ends with it
LoopFail(l) ==
    /\ l \in DOMAIN loops
    /\ loops[l].state = "listening"
    /\ loops[l].kind = "coop" => is_connected
    /\ ~redis_up
    /\ loops' = [loops EXCEPT
           ![l].state = IF loops[l].kind = "coop" THEN "done" ELSE "failed"]
    /\ UNCHANGED <<is_connected, redis_up, connection_status, threads,
                   subscribe_task, halted, stop_waiters, stop_result, ncalls, nstops, nflips,
                   busvars, beats, msgvars>>

\* one iteration of loop l that gets a message: _handle_message in a thread
\* loop, _async_handle_message in a cooperative loop; the handler returns
\* within the step
LoopReceive(l) ==
    /\ l \in DOMAIN loops
    /\ loops[l].state = "listening"
    /\ loops[l].kind = "coop" => is_connected
    /\ loops[l].stream # <<>>
    /\ LET a == Requester
           item == Head(loops[l].stream)
           m == item.data
           outcome == IF loops[l].kind = "thread"
                          THEN handle_message(a, m)
                          ELSE async_handle_message(a, m)
       IN
       /\ loops' = [loops EXCEPT ![l].stream = Tail(@)]
       /\ last' = [last EXCEPT ![a] = [n |-> item.n, outcome |-> outcome, data |-> <<m>>]]
       /\ messages_total' = [messages_total EXCEPT ![a] = InboundCounted(a, m, outcome)]
       /\ hacp_violations' = [hacp_violations EXCEPT ![a] = InboundViolations(a, outcome)]
       /\ IF outcome = "resolved"
             THEN /\ pending_replies' =
                        [pending_replies EXCEPT ![a] = MapPop(@, m.correlation_id)]
                  /\ tasks' = [tasks EXCEPT
                        ![pending_replies[a][m.correlation_id]] =
                            [@ EXCEPT !.pc = "returned", !.result = <<PayloadOf(m)>>]]
             ELSE IF outcome = "invalid_state"
             THEN /\ pending_replies' =
                        [pending_replies EXCEPT ![a] = MapPop(@, m.correlation_id)]
                  /\ UNCHANGED tasks
             ELSE UNCHANGED <<pending_replies, tasks>>
       /\ calls' = IF outcome = "dispatched"
                      THEN [calls EXCEPT ![a] = Append(@,
                               [handler |-> handlers[a][m.type],
                                arg |-> HandlerArgument(loops[l].kind),
                                n |-> item.n])]
                      ELSE calls
    /\ UNCHANGED <<is_connected, redis_up, connection_status, threads,
                   subscribe_task, halted, stop_waiters, stop_result, ncalls, nstops, nflips,
                   busvars, beats, config, handlers, next_uuid, ninbound>>

\* what peers publish on the inbox of agent A while its lifecycle is studied
LifeRaw ==
    {Envelope(Peer, "in-1", "ping", ABSENT, NoTrace)}
    \cup {Envelope(Peer, "in-2", "reply", Uuid(i), NoTrace) : i \in 1..MaxTasks}

\* a peer publishes once on the inbox of agent A: the message, numbered by
\* its publish, reaches every loop that is subscribed
LifePublish(raw) ==
    /\ ninbound < LifeInbound
    /\ redis_up
    /\ Answerable(raw)
    /\ ninbound' = ninbound + 1
    /\ loops' = [l \in DOMAIN loops |->
           IF loops[l].state = "listening"
               THEN [loops[l] EXCEPT !.stream = Append(@, [n |-> ninbound + 1, data |-> raw])]
               ELSE loops[l]]
    /\ UNCHANGED <<is_connected, redis_up, connection_status, threads,
                   subscribe_task, halted, stop_waiters, stop_result, ncalls, nstops, nflips,
                   busvars, beats, config, handlers, pending_replies, calls, last,
                   messages_total, hacp_violations, tasks, next_uuid>>

\* the loops after async_stop(): self._subscribe_task is cancelled if it is
\* still running; redis_client.close() may end the reads of the subscribe
\* threads (closes) or leave them running
async_stop(ls, closes) ==
    [l \in DOMAIN ls |->
        IF l = subscribe_task /\ ls[l].state \in {"starting", "listening"}
            THEN [ls[l] EXCEPT !.state = "cancelled"]
        ELSE IF closes /\ ls[l].kind = "thread" /\ ls[l].state = "listening"
            THEN [ls[l] EXCEPT !.state = "failed"]
        ELSE ls[l]]

\* await self._subscribe_task re-raises what ended the task, unless it is
\* CancelledError
StopRaises ==
    subscribe_task # 0 /\ loops[subscribe_task].state = "failed"

\* the application calls async_stop() while no other call of it is running
Stop ==
    /\ threads[APP].pc = "none"
    /\ nstops < MaxStops
    /\ nstops' = nstops + 1
    /\ is_connected' = FALSE
    /\ IF StopRaises
          THEN /\ stop_result' = "ConnectionError"
               /\ loops' = async_stop(loops, FALSE)
          ELSE /\ stop_result' = "returned"
               /\ \E closes \in BOOLEAN : loops' = async_stop(loops, closes)
    /\ halted' = ~StopRaises
    /\ stop_waiters' = {t \in Tasks : tasks[t].pc = "waiting"}
    /\ UNCHANGED <<redis_up, connection_status, threads, subscribe_task,
                   ncalls, nflips, busvars, beats, msgvars>>

(***************************************************************************)
(* One adapter, agent A, started once with its handlers registered, and    *)
(* the peers and application tasks around it.                              *)
(***************************************************************************)
Configs ==
    [observability : BOOLEAN,
     hacp_interceptor : {NoInterceptor, Interceptor(<<>>),
                         Interceptor(<<"allow_all", "no_secret">>)},
     mode : {"thread", "coop"}]

PlainConfig == [observability |-> FALSE, hacp_interceptor |-> NoInterceptor,
                mode |-> "coop"]

\* what the application registered before start
Registries ==
    {[x \in {"ping"} |-> "on_ping"],
     [x \in {"ping", "reply"} |-> IF x = "ping" THEN "on_ping" ELSE "on_reply"]}

Fresh ==
    /\ pending_replies = [a \in Agents |-> EmptyMap]
    /\ stream = [a \in Agents |-> <<>>]
    /\ arrivals = [a \in Agents |-> 0]
    /\ rx = [a \in Agents |-> "listen"]
    /\ active = [a \in Agents |-> <<>>]
    /\ calls = [a \in Agents |-> <<>>]
    /\ last = [a \in Agents |-> NoLast]
    /\ messages_total = [a \in Agents |-> [l \in MetricLabels |-> 0]]
    /\ hacp_violations = [a \in Agents |-> 0]
    /\ published = <<>>
    /\ tasks = [t \in Tasks |-> IdleTask]
    /\ send_result = [a \in Agents |-> [did |-> "none", raised |-> "none", data |-> <<>>]]
    /\ next_uuid = 0
    /\ ninbound = 0
    /\ nsends = 0
    /\ is_connected = FALSE
    /\ connection_status = -1
    /\ threads = [id \in ThreadIds |-> NoThread]
    /\ loops = <<>>
    /\ subscribe_task = 0
    /\ halted = FALSE
    /\ stop_waiters = {}
    /\ stop_result = "none"
    /\ ncalls = 0
    /\ nstops = 0
    /\ nflips = 0
    /\ registered = <<>>
    /\ pipeline = <<>>
    /\ beats = {}
    /\ fn = "none"
    /\ fn_args = <<>>
    /\ fn_result = <<>>
    /\ evaluated = <<>>

Init ==
    /\ \E c \in Configs : config = [a \in Agents |-> IF a = "A" THEN c ELSE PlainConfig]
    /\ \E r \in Registries : handlers = [a \in Agents |-> IF a = "A" THEN r ELSE EmptyMap]
    /\ subscribed = {"A"}
    /\ redis_up = TRUE
    /\ Fresh

Next ==
    \/ Receive("A")
    \/ HandlerReturn("A")
    \/ \E raw \in InboundRaw : Inject(Inbox("A"), raw)
    \/ \E t \in Tasks : AsyncSend(t, "B", "greet")
    \/ \E t \in Tasks : WaitForReply(t)
    \/ \E t \in Tasks : TimeoutFires(t)
    \/ \E t \in Tasks : WaitTimeout(t)

Spec == Init /\ [][Next]_vars

(***************************************************************************)
(* The send paths alone: the application calls send_message and            *)
(* async_send_message on agent A.                                          *)
(***************************************************************************)
NextSend ==
    \/ \E m \in Outgoing("A") : SendMessage("A", m)
    \/ \E t \in Tasks, type \in RequestTypes : AsyncSend(t, "B", type)

SpecSend == Init /\ [][NextSend]_vars

(***************************************************************************)
(* Properties of the receive path and of request/reply (under Spec).       *)
(***************************************************************************)
\* this step, the receive loop of a took a message off its stream
Took(a) == last'[a].n # last[a].n
\* the message the loop took in this step
Taken(a) == last'[a].data[1]
\* m decodes, is a valid envelope and passes the inbound policy chain of a
Accepted(a, m) ==
    /\ JsonDecodes(m)
    /\ validate_envelope(m) = "ok"
    /\ Hacp(a).present => intercept(Hacp(a).policies, m, "in")
\* m decodes, is a valid envelope and the inbound policy chain of a denies it
Denied(a, m) ==
    /\ JsonDecodes(m)
    /\ validate_envelope(m) = "ok"
    /\ Hacp(a).present
    /\ ~intercept(Hacp(a).policies, m, "in")
\* the correlation id of m is a key of the pending replies of a
IsPendingKey(a, m) == m.correlation_id \in DOMAIN pending_replies[a]

\* C1: every inbound message that decodes, validates and passes the inbound
\* policy chain, whose type has a registered handler and whose correlation id
\* matches no pending reply, gets that handler invoked exactly once, in both
\* receive paths, with or without observability, for every trace context the
\* validator accepts.
C1_DispatchedExactlyOnce ==
    [][\A a \in Agents :
          (Took(a) /\ Accepted(a, Taken(a))
             /\ Taken(a).type \in DOMAIN handlers[a]
             /\ ~IsPendingKey(a, Taken(a)))
          => /\ Len(calls'[a]) = Len(calls[a]) + 1
             /\ calls'[a][Len(calls'[a])].handler = handlers[a][Taken(a).type]
             /\ calls'[a][Len(calls'[a])].n = last'[a].n]_vars

\* C2: in the cooperative receive path, an accepted envelope whose
\* correlation id is a key of pending_replies makes the waiter of that id
\* return exactly the envelope's payload; the entry is removed, no handler is
\* invoked and messages_total is not incremented.
C2_ReplyResolvesWaiter ==
    [][(Took(Requester) /\ config[Requester].mode = "coop"
          /\ Accepted(Requester, Taken(Requester))
          /\ IsPendingKey(Requester, Taken(Requester)))
       => LET m == Taken(Requester)
              t == pending_replies[Requester][m.correlation_id]
          IN /\ tasks[t].pc = "waiting"
             /\ tasks'[t].pc = "returned"
             /\ tasks'[t].result = <<PayloadOf(m)>>
             /\ m.correlation_id \notin DOMAIN pending_replies'[Requester]
             /\ calls' = calls
             /\ active' = active
             /\ messages_total' = messages_total]_vars

\* a reply resolved the wait of a task while observability was on and a
\* handler was registered for the type of the reply
C2_Witness ==
    \E t \in Tasks :
        /\ config[Requester].mode = "coop"
        /\ Observability(Requester)
        /\ last[Requester].outcome = "resolved"
        /\ last[Requester].data[1].type \in DOMAIN handlers[Requester]
        /\ tasks[t].pc = "returned"
        /\ tasks[t].result = <<PayloadOf(last[Requester].data[1])>>
        /\ tasks[t].cid = last[Requester].data[1].correlation_id

\* C3: a wait that no reply resolved before its timeout fails with a timeout
\* error, and when it has failed pending_replies no longer holds its
\* correlation id.
C3_TimeoutRemovesSlot ==
    [][\A t \in Tasks :
          /\ (tasks[t].pc = "waiting" /\ tasks'[t].pc # "waiting"
                 /\ ~Took(Requester))
             => tasks'[t].pc = "cancelled"
          /\ (tasks[t].pc = "cancelled" /\ tasks'[t].pc # "cancelled")
             => /\ tasks'[t].pc = "timedout"
                /\ tasks'[t].error = "TimeoutError"
                /\ tasks'[t].result = <<>>
                /\ tasks[t].cid \notin DOMAIN pending_replies'[Requester]]_vars

\* a wait timed out after a message that did not resolve it had been handled
C3_Witness ==
    \E t \in Tasks :
        /\ tasks[t].pc = "timedout"
        /\ tasks[t].cid \notin DOMAIN pending_replies[Requester]
        /\ last[Requester].n > 0

\* C4: a reply whose request has already timed out is dropped silently: in
\* the cooperative receive path it invokes no type handler and resolves no
\* waiter.
C4_LateReplyDropped ==
    [][(Took(Requester) /\ config[Requester].mode = "coop"
          /\ Accepted(Requester, Taken(Requester))
          /\ \E t \in Tasks : /\ tasks[t].pc = "timedout"
                              /\ tasks[t].cid = Taken(Requester).correlation_id)
       => /\ calls' = calls
          /\ tasks' = tasks]_vars

\* C5: a reply bearing the correlation id of a request, received after the
\* request was published and before its timeout, resolves the waiter; it is
\* never routed to a type handler or dropped.
C5_NoReplyLost ==
    [][\A t \in Tasks :
          (Took(Requester) /\ config[Requester].mode = "coop"
             /\ Accepted(Requester, Taken(Requester))
             /\ tasks[t].pc \in {"sent", "waiting"}
             /\ tasks[t].cid = Taken(Requester).correlation_id)
          => /\ tasks'[t].pc = "returned"
             /\ tasks'[t].result = <<PayloadOf(Taken(Requester))>>
             /\ calls' = calls]_vars

\* C7: an envelope the inbound policy chain denies invokes no handler and
\* resolves no pending reply, in both receive paths; the violation counter is
\* incremented exactly once (it exists when observability is configured) and
\* messages_total is not incremented.
C7_InboundDenyBlocks ==
    [][\A a \in Agents :
          (Took(a) /\ Denied(a, Taken(a)))
          => /\ calls' = calls
             /\ active' = active
             /\ pending_replies' = pending_replies
             /\ tasks' = tasks
             /\ messages_total' = messages_total
             /\ hacp_violations'[a] =
                    hacp_violations[a] + (IF Observability(a) THEN 1 ELSE 0)]_vars

\* a denied envelope whose correlation id is pending and whose wait is still
\* outstanding, counted as one violation
C7_Witness ==
    /\ last[Requester].outcome = "denied"
    /\ Observability(Requester)
    /\ hacp_violations[Requester] = 1
    /\ last[Requester].data[1].correlation_id \in DOMAIN pending_replies[Requester]
    /\ \E t \in Tasks : tasks[t].pc = "waiting"

\* C10: messages are handled in receive order with at most one in flight:
\* the loop takes message n+1 only after the handler invoked for message n has
\* returned, so two handler invocations of one adapter never overlap.
C10_OneInFlight ==
    [][\A a \in Agents :
          /\ Took(a) => /\ active[a] = <<>>
                        /\ last'[a].n = last[a].n + 1
          /\ Len(active'[a]) <= 1
          /\ (rx'[a] = "in_handler") = (active'[a] # <<>>)]_vars

\* the second message was dispatched after the handler of the first had
\* returned, and its handler is running
C10_Witness ==
    /\ Len(calls[Requester]) = 2
    /\ active[Requester] # <<>>
    /\ rx[Requester] = "in_handler"

(***************************************************************************)
(* Properties of the send paths (under SpecSend).                          *)
(***************************************************************************)
\* the outbound policy chain of a denies m
DeniedOut(a, m) ==
    Hacp(a).present /\ ~intercept(Hacp(a).policies, m, "out")
\* this step is a call of send_message by a
SyncSent(a) == nsends' = nsends + 1
\* this step is the call of async_send_message by task t
AsyncSent(t) == tasks[t].pc = "idle" /\ tasks'[t].pc # "idle"
\* the envelope task t built in this step
AsyncBuilt(t) == create_envelope(Requester, tasks'[t].type, Uuid(next_uuid'))
\* nothing was published, no counter of messages moved, and the violation
\* counter of a (it exists when observability is configured) went up by one
Blocked(a) ==
    /\ published' = published
    /\ stream' = stream
    /\ arrivals' = arrivals
    /\ messages_total' = messages_total
    /\ hacp_violations'[a] = hacp_violations[a] + (IF Observability(a) THEN 1 ELSE 0)

\* C8: a message the outbound policy chain denies is not published to any
\* channel, gets no trace context, is not counted in messages_total, and
\* increments the violation counter exactly once, in send_message and in
\* async_send_message.
C8_OutboundDenyBlocks ==
    [][/\ (SyncSent(Requester)
             /\ DeniedOut(Requester, [send_result'[Requester].data[1] EXCEPT
                                         !.trace_context = NoTrace]))
          => /\ Blocked(Requester)
             /\ send_result'[Requester].data[1].trace_context = NoTrace
       /\ \A t \in Tasks :
             (AsyncSent(t) /\ DeniedOut(Requester, AsyncBuilt(t)))
             => Blocked(Requester)]_vars

\* both send paths blocked a message, each counted once
C8_Witness ==
    /\ Observability(Requester)
    /\ send_result[Requester].did = "blocked"
    /\ \E t \in Tasks : tasks[t].error = "HACPViolationError"
    /\ hacp_violations[Requester] = 2
    /\ published = <<>>

\* C9: when the outbound policy chain denies a message, the send is aborted
\* and the policy-violation error is raised to the caller, in send_message
\* and in async_send_message.
C9_OutboundDenyRaises ==
    /\ send_result[Requester].did = "blocked"
          => send_result[Requester].raised = "HACPViolationError"
    /\ \A t \in Tasks :
          (tasks[t].pc = "raised"
             /\ DeniedOut(Requester, create_envelope(Requester, tasks[t].type, Uuid(1))))
          => tasks[t].error = "HACPViolationError"

(***************************************************************************)
(* Request and reply between two adapters.  Agent A runs the cooperative   *)
(* model and sends greet requests to the inbox of agent B; the greet        *)
(* handler of B answers with a greet-reply carrying the correlation id of  *)
(* the request, through send_message or through async_send_message.        *)
(***************************************************************************)
Responder == "B"

\* the request the running greet handler of a was invoked with
GreetRequest(a) == Head(active[a]).data

\* the greet handler answers with send_message and returns
HandlerReplySync(a) ==
    /\ UNCHANGED lifevars
    /\ UNCHANGED <<registered, beats, purevars>>
    /\ active[a] # <<>>
    /\ Head(active[a]).handler = "greet_handler"
    /\ \E transport_ok \in BOOLEAN :
          send_message(a,
                       Envelope(a, "reply-1", "greet-reply",
                                GreetRequest(a).correlation_id, NoTrace),
                       transport_ok)
    /\ active' = [active EXCEPT ![a] = Tail(@)]
    /\ rx' = [rx EXCEPT ![a] = IF Tail(active[a]) = <<>> THEN "listen" ELSE "in_handler"]
    /\ UNCHANGED <<config, handlers, pending_replies, subscribed, calls, last,
                   tasks, next_uuid, ninbound, nsends>>

\* the greet handler answers with async_send_message to the sender of the
\* request, passing the correlation id of the request in the payload, and
\* returns
HandlerReplyAsync(a) ==
    /\ UNCHANGED lifevars
    /\ UNCHANGED <<registered, beats, purevars>>
    /\ active[a] # <<>>
    /\ Head(active[a]).handler = "greet_handler"
    /\ \E transport_ok \in BOOLEAN :
          async_send_message(a, GreetRequest(a).sender, "greet-reply", transport_ok)
    /\ active' = [active EXCEPT ![a] = Tail(@)]
    /\ rx' = [rx EXCEPT ![a] = IF Tail(active[a]) = <<>> THEN "listen" ELSE "in_handler"]
    /\ UNCHANGED <<config, handlers, pending_replies, subscribed, calls, last,
                   tasks, send_result, ninbound, nsends>>

InitE2E ==
    /\ \E oa \in BOOLEAN, ob \in BOOLEAN, mb \in {"thread", "coop"} :
          config = [a \in Agents |->
                      [observability |-> IF a = Requester THEN oa ELSE ob,
                       hacp_interceptor |-> NoInterceptor,
                       mode |-> IF a = Requester THEN "coop" ELSE mb]]
    /\ \E r \in {EmptyMap, [x \in {"greet-reply"} |-> "on_greet_reply"]} :
          handlers = [a \in Agents |->
                        IF a = Requester THEN r
                        ELSE [x \in {"greet"} |-> "greet_handler"]]
    /\ subscribed = {Requester, Responder}
    /\ redis_up = TRUE
    /\ Fresh

NextE2E ==
    \/ \E t \in Tasks : AsyncSend(t, Responder, "greet")
    \/ \E t \in Tasks : WaitForReply(t)
    \/ \E a \in Agents : Receive(a)
    \/ \E a \in Agents : HandlerReturn(a)
    \/ HandlerReplySync(Responder)
    \/ HandlerReplyAsync(Responder)

SpecE2E == InitE2E /\ [][NextE2E]_vars

\* the publishes agent a made
PublishedBy(a) == {i \in DOMAIN published : published[i].by = a}
\* every request has been answered and every message delivered and handled
AllAnswered ==
    /\ PublishedBy(Requester) # {}
    /\ Cardinality(PublishedBy(Responder)) = Cardinality(PublishedBy(Requester))
    /\ \A i \in PublishedBy(Responder) : published[i].data.type = "greet-reply"
    /\ \A a \in Agents : stream[a] = <<>> /\ active[a] = <<>>

\* C6: when A sends a greet request to the inbox of B and waits on its
\* correlation id, and the greet handler of B answers with a greet-reply
\* through a send operation of the adapter, the reply reaches the receive
\* loop of A with that correlation id and resolves the pending slot of A with
\* its payload.
C6_EndToEndReply ==
    \A t \in Tasks :
        (AllAnswered /\ tasks[t].pc \in {"waiting", "returned"})
        => /\ tasks[t].pc = "returned"
           /\ tasks[t].result =
                 <<[type |-> "greet-reply", correlation_id |-> tasks[t].cid]>>

(***************************************************************************)
(* The two receive paths compared, and what they drop (under Spec).        *)
(***************************************************************************)
\* C16: the thread path and the cooperative path are equivalent: given the
\* same message, registry, interceptor and pending replies they come to the
\* same outcome (the same handler invoked or none, the same pending reply
\* resolved or none) and call the handler with the same argument.
C16_PathsEquivalent ==
    [][\A a \in Agents :
          (Took(a) /\ Accepted(a, Taken(a)))
          => /\ handle_message(a, Taken(a)) = async_handle_message(a, Taken(a))
             /\ HandlerArgument("thread") = HandlerArgument("coop")]_vars

\* C17: in the thread path too, an accepted envelope whose correlation id is
\* a key of pending_replies resolves that entry and reaches no type handler.
C17_ThreadResolvesReply ==
    [][(Took(Requester) /\ config[Requester].mode = "thread"
          /\ Accepted(Requester, Taken(Requester))
          /\ IsPendingKey(Requester, Taken(Requester)))
       => /\ Taken(Requester).correlation_id \notin DOMAIN pending_replies'[Requester]
          /\ tasks'[pending_replies[Requester][Taken(Requester).correlation_id]].pc
                = "returned"
          /\ calls' = calls]_vars

\* C19: a message that decodes but fails validate_envelope is dropped in
\* both receive paths: the policy chain is not evaluated (no violation is
\* counted), no pending reply is resolved, no handler is invoked,
\* messages_total{invalid,in} goes up by exactly one (the counter exists when
\* observability is configured) and no other counter moves, and the loop
\* stays ready for the next message.
C19_InvalidDropped ==
    [][\A a \in Agents :
          (Took(a) /\ Taken(a).json /\ validate_envelope(Taken(a)) # "ok")
          => /\ last'[a].outcome = "invalid"
             /\ hacp_violations' = hacp_violations
             /\ pending_replies' = pending_replies
             /\ tasks' = tasks
             /\ calls' = calls
             /\ active' = active
             /\ messages_total'[a] =
                    IF Observability(a)
                        THEN Inc(messages_total[a], <<"invalid", "in">>)
                        ELSE messages_total[a]
             /\ rx'[a] = "listen"
             /\ stream'[a] = Tail(stream[a])]_vars

\* an invalid envelope was counted once, behind it a message waits that a
\* policy would deny, and a reply is being waited for
C19_Witness ==
    /\ last[Requester].outcome = "invalid"
    /\ Observability(Requester)
    /\ Hacp(Requester).policies # <<>>
    /\ messages_total[Requester][<<"invalid", "in">>] = 1
    /\ stream[Requester] # <<>>
    /\ \E t \in Tasks : tasks[t].pc = "waiting"

\* C20: a message that is not JSON is dropped before validation: nothing is
\* validated or counted, no policy is evaluated, no handler is invoked, the
\* registry and the pending replies are unchanged, no exception leaves the
\* handling routine (the loop stays ready) and the message is gone from the
\* stream, not put back.
C20_UndecodableDropped ==
    [][\A a \in Agents :
          (Took(a) /\ Taken(a) = NotJson)
          => /\ last'[a].outcome = "decode_error"
             /\ messages_total' = messages_total
             /\ hacp_violations' = hacp_violations
             /\ calls' = calls
             /\ active' = active
             /\ handlers' = handlers
             /\ pending_replies' = pending_replies
             /\ tasks' = tasks
             /\ rx'[a] = "listen"
             /\ stream'[a] = Tail(stream[a])
             /\ arrivals' = arrivals]_vars

\* undecodable text was dropped with observability on and a wait outstanding,
\* and the next message is in the stream
C20_Witness ==
    /\ last[Requester].outcome = "decode_error"
    /\ Observability(Requester)
    /\ pending_replies[Requester] # EmptyMap
    /\ stream[Requester] # <<>>

(***************************************************************************)
(* What the send paths publish (under SpecSend).                           *)
(***************************************************************************)
\* C18: an invalid envelope is never sent: every message a send path
\* publishes satisfies validate_envelope, and a send_message call whose
\* message fails validation raises an error to its caller and publishes
\* nothing.
C18_OnlyValidSent ==
    /\ \A i \in DOMAIN published :
          validate_envelope(published[i].data) = "ok"
    /\ \A a \in Agents :
          (send_result[a].data # <<>>
             /\ validate_envelope(send_result[a].data[1]) # "ok")
          => /\ send_result[a].did # "published"
             /\ send_result[a].raised # "none"

(***************************************************************************)
(* connect() and the heartbeat alone: the application calls connect() on   *)
(* agent A while the server comes and goes.                                *)
(***************************************************************************)
InitConnect ==
    /\ \E o \in BOOLEAN :
          config = [a \in Agents |-> [PlainConfig EXCEPT !.observability = o]]
    /\ handlers = [a \in Agents |-> EmptyMap]
    /\ subscribed = {}
    /\ redis_up \in BOOLEAN
    /\ Fresh

NextConnect ==
    \/ AppCall("connect")
    \/ \E id \in ThreadIds : ConnectTry(id, MaxFailures)
    \/ \E h \in HeartbeatIds : HeartbeatBeat(h)
    \/ \E h \in HeartbeatIds : HeartbeatReconnect(h)
    \/ TransportFlip

SpecConnect == InitConnect /\ [][NextConnect]_vars

(***************************************************************************)
(* The life of agent A: the application starts it (connect, start,         *)
(* async_start, in any order), peers publish on its inbox, tasks wait for  *)
(* replies, the server comes and goes, the application stops it.           *)
(***************************************************************************)
InitLife ==
    /\ config = [a \in Agents |-> PlainConfig]
    /\ handlers = [a \in Agents |->
                     IF a = Requester THEN [x \in {"ping"} |-> "on_ping"]
                     ELSE EmptyMap]
    /\ subscribed = {}
    /\ redis_up = TRUE
    /\ Fresh

NextLife ==
    \/ \E op \in Ops : AppCall(op)
    \/ \E id \in ThreadIds : ConnectTry(id, LifeFailures)
    \/ \E h \in HeartbeatIds : HeartbeatBeat(h)
    \/ \E h \in HeartbeatIds : HeartbeatReconnect(h)
    \/ TransportFlip
    \/ \E l \in 1..MaxCalls : LoopSubscribe(l)
    \/ \E l \in 1..MaxCalls : LoopExit(l)
    \/ \E l \in 1..MaxCalls : LoopFail(l)
    \/ \E l \in 1..MaxCalls : LoopReceive(l)
    \/ \E raw \in LifeRaw : LifePublish(raw)
    \/ Stop
    \/ \E t \in Tasks : AsyncSend(t, "B", "greet")
    \/ \E t \in Tasks : WaitForReply(t)
    \/ \E t \in Tasks : TimeoutFires(t)
    \/ \E t \in Tasks : WaitTimeout(t)

SpecLife == InitLife /\ [][NextLife]_vars

(***************************************************************************)
(* Properties of connect() and the heartbeat (under SpecConnect).          *)
(***************************************************************************)
\* C12: within one connect() call the delay slept after the k-th failure
\* (k = 0, 1, ...) is min(2^k, 30), so no delay exceeds 30, and every
\* connect() call starts from the delay 1 whatever the calls before it did.
C12_Backoff ==
    \A id \in ThreadIds :
        /\ \A i \in DOMAIN threads[id].slept :
              /\ threads[id].slept[i] = Min(2 ^ (i - 1), 30)
              /\ threads[id].slept[i] <= 30
        /\ (threads[id].pc = "connect" /\ threads[id].slept = <<>>)
              => threads[id].retry_delay = 1

\* the application's connect() failed once and then connected; the connect()
\* of the heartbeat thread that lost the connection later began again at 1
\* and has slept through the cap
C12_Witness ==
    /\ threads[APP].slept = <<1>>
    /\ \E h \in HeartbeatIds :
          /\ threads[h].pc = "connect"
          /\ Len(threads[h].slept) = MaxFailures
          /\ threads[h].slept[1] = 1
          /\ threads[h].slept[MaxFailures] = 30

\* C13: a transport error of the heartbeat publish is never fatal: the
\* thread whose publish failed while the adapter was connected goes on to
\* handle the error (it does not end), and connection_status is set to 0
\* only after the adapter was marked disconnected.
C13_HeartbeatNeverFatal ==
    [][/\ \A h \in HeartbeatIds :
             (threads[h].pc = "beat" /\ is_connected /\ ~redis_up
                /\ threads'[h] # threads[h])
             => threads'[h].pc \in {"failed", "connect"}
       /\ (connection_status' = 0 /\ connection_status # 0) => ~is_connected]_vars

(***************************************************************************)
(* Properties of start and stop (under SpecLife).                          *)
(***************************************************************************)
\* C11: at-most-once delivery: whatever connect(), start() and
\* async_start() calls and reconnects happened, a message published once is
\* passed to a type handler at most once by the adapter.
C11_AtMostOnce ==
    \A i, j \in DOMAIN calls[Requester] :
        calls[Requester][i].n = calls[Requester][j].n => i = j

\* this step is a call of async_stop()
Stopped == nstops' = nstops + 1
\* the task in self._subscribe_task has ended
TaskEnded(st, ls) == st # 0 => ls[st].state \in {"done", "cancelled", "failed"}
\* this step, a cooperative loop took a message
CoopTook ==
    \E l \in DOMAIN loops :
        /\ loops[l].kind = "coop"
        /\ loops[l].stream # <<>>
        /\ loops'[l].stream = Tail(loops[l].stream)

\* C14: async_stop() raises no error, the first time or again; once it has
\* returned and until the application starts the adapter again,
\* is_connected is false, the receive task has ended and no cooperative
\* loop passes a message to a handler; a second call leaves the connection
\* flag and the receive task as they were.
C14_StopTerminates ==
    [][/\ Stopped => stop_result' = "returned"
       /\ halted' => (~is_connected' /\ TaskEnded(subscribe_task', loops'))
       /\ (halted /\ halted' /\ CoopTook) => calls' = calls
       /\ (halted /\ Stopped)
             => /\ is_connected' = is_connected
                /\ subscribe_task' = subscribe_task
                /\ subscribe_task # 0
                      => loops'[subscribe_task] = loops[subscribe_task]]_vars

\* C15: async_stop() leaves pending_replies as it is (no entry removed,
\* resolved or cancelled), and a waiter outstanding when the adapter is
\* stopped ends by its own timeout, its entry then removed.
C15_StopKeepsPending ==
    [][/\ Stopped => (pending_replies' = pending_replies /\ tasks' = tasks)
       /\ \A t \in Tasks :
             /\ (halted /\ halted' /\ t \in stop_waiters
                   /\ tasks[t].pc = "waiting" /\ tasks'[t].pc # "waiting")
                => tasks'[t].pc = "cancelled"
             /\ (halted /\ halted' /\ t \in stop_waiters
                   /\ tasks[t].pc = "cancelled" /\ tasks'[t].pc # "cancelled")
                => /\ tasks'[t].pc = "timedout"
                   /\ tasks[t].cid \notin DOMAIN pending_replies'[Requester]]_vars

(***************************************************************************)
(* The handler registry: the application registers handlers before and     *)
(* after the receive loop of agent A has subscribed, while peers publish   *)
(* on its inbox.                                                           *)
(***************************************************************************)
\* pubsub.subscribe(inbox), pubsub.subscribe(announcements): the receive
\* loop of a starts to get what is published on its channels
StartLoop(a) ==
    /\ a \notin subscribed
    /\ subscribed' = subscribed \cup {a}
    /\ UNCHANGED <<config, handlers, pending_replies, stream, arrivals, rx,
                   active, calls, last, messages_total, hacp_violations,
                   published, tasks, send_result, next_uuid, ninbound, nsends,
                   lifevars, auxvars>>

\* the types and the handlers the application registers
RegisteredTypes == {"ping", "reply"}
HandlerNames == {"h1", "h2"}

\* what peers publish on the inbox of agent A meanwhile
RegistryRaw ==
    {Envelope(Peer, "in-1", type, ABSENT, NoTrace) : type \in RegisteredTypes}

InitRegistry ==
    /\ \E md \in {"thread", "coop"} :
          config = [a \in Agents |-> [PlainConfig EXCEPT !.mode = md]]
    /\ handlers = [a \in Agents |-> EmptyMap]
    /\ subscribed = {}
    /\ redis_up = TRUE
    /\ Fresh

NextRegistry ==
    \/ \E type \in RegisteredTypes, h \in HandlerNames : register_handler("A", type, h)
    \/ StartLoop("A")
    \/ \E raw \in RegistryRaw : Inject(Inbox("A"), raw)
    \/ Receive("A")
    \/ HandlerReturn("A")

SpecRegistry == InitRegistry /\ [][NextRegistry]_vars

\* the register_handler calls made so far on a for type
RegistrationsOf(a, type) ==
    {i \in DOMAIN registered :
        registered[i].agent = a /\ registered[i].type = type}
\* the handler of the last of them
LatestRegistered(a, type) ==
    registered[CHOOSE i \in RegistrationsOf(a, type) :
                  \A j \in RegistrationsOf(a, type) : j <= i].handler

\* C21: after any sequence of register_handler calls, made before or after
\* the receive loop started, the handler invoked for an inbound envelope of
\* type T is the one most recently registered for T when the envelope is
\* dispatched, and a registration for T leaves the handlers of all other
\* types as they were.
C21_LatestRegistrationWins ==
    [][/\ \A a \in Agents :
            Len(calls'[a]) > Len(calls[a])
            => /\ Took(a)
               /\ RegistrationsOf(a, Taken(a).type) # {}
               /\ Len(calls'[a]) = Len(calls[a]) + 1
               /\ calls'[a][Len(calls'[a])].handler
                     = LatestRegistered(a, Taken(a).type)
       /\ Len(registered') > Len(registered)
            => LET r == registered'[Len(registered')] IN
               /\ handlers'[r.agent][r.type] = r.handler
               /\ \A a \in Agents, u \in Types :
                     (a # r.agent \/ u # r.type)
                     => /\ u \in DOMAIN handlers'[a] <=> u \in DOMAIN handlers[a]
                        /\ u \in DOMAIN handlers[a] => handlers'[a][u] = handlers[a][u]
      ]_vars

\* a handler of ping registered before the start was invoked for one
\* message, and the handler registered for ping after the start, while
\* another type had a handler too, was invoked for the next
C21_Witness ==
    /\ Len(calls["A"]) = 2
    /\ calls["A"][1].handler # calls["A"][2].handler
    /\ \E i, j \in DOMAIN registered :
          /\ i < j
          /\ registered[i].type = "ping" /\ ~registered[i].started
          /\ registered[i].handler = calls["A"][1].handler
          /\ registered[j].type = "ping" /\ registered[j].started
          /\ registered[j].handler = calls["A"][2].handler
    /\ "reply" \in DOMAIN handlers["A"]

(***************************************************************************)
(* Envelopes of a type nobody handles (under Spec).                        *)
(***************************************************************************)
\* C22: an inbound envelope that is accepted, matches no pending reply and
\* whose payload.type has no registered handler is not an error: no handler
\* is invoked, the warning of the dispatcher is logged and no exception is
\* raised (the outcome is no_handler), the registry and the pending replies
\* are unchanged, and the loop goes on to the next message.
C22_UnknownHandlerDropped ==
    [][\A a \in Agents :
          (Took(a) /\ Accepted(a, Taken(a))
             /\ Taken(a).type \notin DOMAIN handlers[a]
             /\ ~IsPendingKey(a, Taken(a)))
          => /\ last'[a].outcome = "no_handler"
             /\ calls'[a] = calls[a]
             /\ handlers'[a] = handlers[a]
             /\ pending_replies'[a] = pending_replies[a]
             /\ rx'[a] = "listen"
      ]_vars

(***************************************************************************)
(* The envelope module on its own: one call of validate_envelope on a      *)
(* dictionary of any shape.                                                *)
(***************************************************************************)
\* everything but the call under study
adaptervars == <<config, handlers, pending_replies, subscribed, stream, arrivals,
                 rx, active, calls, last, messages_total, hacp_violations,
                 published, tasks, send_result, next_uuid, ninbound, nsends,
                 lifevars, registered, pipeline, beats>>

\* a value that is not a dict
NonDictEnvelope ==
    Raw(TRUE, NONDICT, ABSENT, ABSENT, ABSENT, ABSENT, NoTrace, ABSENT, ABSENT,
        ABSENT, ABSENT)

\* the values of the fields of the dictionaries validated
FieldValues == {ABSENT, NONSTR, "", "x"}
Timestamps == {ABSENT, NONSTR, "", TS_BAD, TS_Z, TS_ISO}
TraceContexts ==
    {NoTrace, [kind |-> NONDICT, trace_id |-> ABSENT, span_id |-> ABSENT]}
    \cup {TraceCtx(t, s) : t \in {NONSTR, HEX}, s \in {ABSENT, NONSTR, HEX}}

EnvelopeDicts ==
    {NonDictEnvelope}
    \cup {Raw(TRUE, DICT, header, sender, timestamp, id, tc, payload, type,
              ABSENT, metadata) :
            header \in {ABSENT, NONDICT, DICT}, sender \in FieldValues,
            timestamp \in Timestamps, id \in FieldValues,
            tc \in TraceContexts, payload \in {ABSENT, NONDICT, DICT},
            type \in FieldValues, metadata \in {ABSENT, NONDICT, EMPTY, DICT}}

\* validate_envelope(d): "ok" when it returns, else the rule of the
\* EnvelopeValidationError it raises
Validate(d) ==
    /\ fn = "none"
    /\ fn' = "validate_envelope"
    /\ fn_args' = d
    /\ fn_result' = validate_envelope(d)
    /\ UNCHANGED <<evaluated, adaptervars>>

(***************************************************************************)
(* BeastEnvelope and create_envelope.  An envelope object is the record of *)
(* its header and payload with self.metadata, which is never None: {} is   *)
(* EMPTY.                                                                  *)
(***************************************************************************)
\* the argument None
NONE == "<none>"

\* BeastEnvelope(header, payload, metadata) with the header and payload of d:
\* self.metadata = metadata or {}
BeastEnvelope(d, metadata) ==
    [d EXCEPT !.top = DICT,
              !.metadata = IF metadata \in {NONE, ABSENT, EMPTY} THEN EMPTY
                           ELSE metadata]

\* the metadata key is written even when self.metadata is empty
to_dict_AlwaysMetadata(e) == e

\* BeastEnvelope.to_dict: the metadata key is written only `if self.metadata`
to_dict(e) ==
    [e EXCEPT !.metadata = IF e.metadata = EMPTY THEN ABSENT ELSE e.metadata]

\* BeastEnvelope.from_dict(data), for a data that validate_envelope accepts:
\* header, payload and data.get("metadata"); other keys of data are not read
from_dict(d) == BeastEnvelope(d, d.metadata)

\* datetime.now(UTC).isoformat() and .replace("+00:00", "Z")
Now == TS_ISO
SuffixZ(ts) == IF ts = TS_ISO THEN TS_Z ELSE ts

\* the envelope is returned without being validated
CreateEnvelope_Unvalidated(args, uuid) ==
    LET message_id == IF args.message_id = NONE THEN uuid ELSE args.message_id
        type == IF args.payload_data.type # ABSENT THEN args.payload_data.type
                ELSE args.message_type
    IN [raised |-> "none",
        envelope |-> <<BeastEnvelope(
                          Raw(TRUE, DICT, DICT, args.sender, SuffixZ(Now), message_id,
                              NoTrace, DICT, type, args.payload_data.correlation_id,
                              ABSENT),
                          args.metadata)>>]

\* create_envelope(sender, message_type, payload_data, message_id, metadata);
\* uuid is what uuid.uuid4() gives if it is called.  The payload is
\* {"type": message_type, **payload_data}: a "type" key of payload_data
\* replaces message_type.
CreateEnvelope(args, uuid) ==
    LET message_id == IF args.message_id = NONE THEN uuid ELSE args.message_id
        type == IF args.payload_data.type # ABSENT THEN args.payload_data.type
                ELSE args.message_type
        e == BeastEnvelope(
                 Raw(TRUE, DICT, DICT, args.sender, SuffixZ(Now), message_id,
                     NoTrace, DICT, type, args.payload_data.correlation_id, ABSENT),
                 args.metadata)
    IN IF validate_envelope(to_dict(e)) # "ok"
          THEN [raised |-> "EnvelopeValidationError", envelope |-> <<>>]
          ELSE [raised |-> "none", envelope |-> <<e>>]

\* arguments of the declared types: str, str, dict[str, Any], str | None,
\* dict | None
CreateArgs ==
    [sender : {"", "A"},
     message_type : {"", "ping"},
     payload_data : [type : {ABSENT, NONSTR, "other"}, correlation_id : {ABSENT, "c1"}],
     message_id : {NONE, "", "m1"},
     metadata : {NONE, EMPTY, DICT}]

Create(args) ==
    /\ fn = "none"
    /\ fn' = "create_envelope"
    /\ fn_args' = args
    /\ fn_result' = CreateEnvelope(args, Uuid(next_uuid + 1))
    /\ next_uuid' = IF args.message_id = NONE THEN next_uuid + 1 ELSE next_uuid
    /\ UNCHANGED <<evaluated, config, handlers, pending_replies, subscribed,
                   stream, arrivals, rx, active, calls, last, messages_total,
                   hacp_violations, published, tasks, send_result, ninbound,
                   nsends, lifevars, registered, pipeline, beats>>

\* BeastEnvelope.from_dict(d).to_dict() for the dictionary d, which has
\* other top-level keys besides header, payload and metadata when extra
RoundTrip(name, d, extra) ==
    /\ fn' = name
    /\ fn_args' = [dict |-> d, extra |-> extra]
    /\ fn_result' =
          IF validate_envelope(d) # "ok"
             THEN [raised |-> "EnvelopeValidationError", dict |-> <<>>, extra |-> FALSE]
             ELSE [raised |-> "none", dict |-> <<to_dict(from_dict(d))>>, extra |-> FALSE]
    /\ UNCHANGED <<evaluated, adaptervars>>

FromDictToDict(d, extra) ==
    /\ fn = "none"
    /\ RoundTrip("from_dict", d, extra)

\* the same on the to_dict() of the envelope create_envelope returned
CreatedFromDictToDict ==
    /\ fn = "create_envelope"
    /\ fn_result.raised = "none"
    /\ RoundTrip("created.from_dict", to_dict(fn_result.envelope[1]), FALSE)

InitEnvelope ==
    /\ config = [a \in Agents |-> PlainConfig]
    /\ handlers = [a \in Agents |-> EmptyMap]
    /\ subscribed = {}
    /\ redis_up = TRUE
    /\ Fresh

\* one call, on any input
NextEnvelope ==
    \/ fn = "none" /\ \E d \in EnvelopeDicts : Validate(d)
    \/ fn = "none" /\ \E args \in CreateArgs : Create(args)
    \/ fn = "none" /\ \E d \in EnvelopeDicts, extra \in BOOLEAN : FromDictToDict(d, extra)
    \/ CreatedFromDictToDict

SpecEnvelope == InitEnvelope /\ [][NextEnvelope]_vars

(***************************************************************************)
(* The order of the validation rules (under SpecEnvelope).                 *)
(***************************************************************************)
\* the rules in the order claimed, each with the errors that report it
RuleErrors ==
    << {"envelope_not_dict"},
       {"missing_header"},
       {"header_not_dict"},
       {"missing:sender", "notstr:sender"},
       {"missing:timestamp", "notstr:timestamp"},
       {"missing:id", "notstr:id"},
       {"bad_timestamp"},
       {"trace_context_not_dict", "trace_id_not_str", "span_id_not_str"},
       {"missing_payload"},
       {"payload_not_dict"},
       {"missing_type", "type_not_str"},
       {"metadata_not_dict"} >>

\* d violates rule r
Violates(r, d) ==
    CASE r = 1 -> d.top # DICT
      [] r = 2 -> d.header = ABSENT
      [] r = 3 -> d.header # DICT
      [] r = 4 -> ~IsStr(d.sender)
      [] r = 5 -> ~IsStr(d.timestamp)
      [] r = 6 -> ~IsStr(d.id)
      [] r = 7 -> d.timestamp \notin {TS_ISO, TS_Z}
      [] r = 8 -> \/ d.trace_context.kind = NONDICT
                  \/ /\ d.trace_context.kind = DICT
                     /\ NONSTR \in {d.trace_context.trace_id, d.trace_context.span_id}
      [] r = 9 -> d.payload = ABSENT
      [] r = 10 -> d.payload # DICT
      [] r = 11 -> ~IsStr(d.type)
      [] r = 12 -> d.metadata = NONDICT

ViolatedRules(d) == {r \in DOMAIN RuleErrors : Violates(r, d)}
EarliestViolated(d) ==
    CHOOSE r \in ViolatedRules(d) : \A q \in ViolatedRules(d) : r <= q

\* C23: validate_envelope stops at the first violated rule in the fixed
\* order: top level a record, header present, header a record, sender then
\* timestamp then id present and strings, timestamp parses as ISO-8601 (Z
\* accepted), trace_context a record with string ids, payload present,
\* payload a record, payload.type present and a string, metadata a record.
\* For an envelope violating several rules the error reported is that of
\* the earliest one, and an envelope violating none is accepted.
C23_FirstViolatedRule ==
    fn = "validate_envelope"
    => IF ViolatedRules(fn_args) = {}
          THEN fn_result = "ok"
          ELSE fn_result \in RuleErrors[EarliestViolated(fn_args)]

\* an envelope whose sender is not a string, whose timestamp does not
\* parse and which has no payload: the error is the sender's
C23_Witness ==
    /\ fn = "validate_envelope"
    /\ {4, 7, 9} \subseteq ViolatedRules(fn_args)
    /\ EarliestViolated(fn_args) = 4
    /\ fn_result = "notstr:sender"

\* C24: validate_envelope rejects every envelope in which header.sender,
\* header.id or payload.type is the empty string.
C24_EmptyStringsRejected ==
    (/\ fn = "validate_envelope"
     /\ fn_args.top = DICT /\ fn_args.header = DICT /\ fn_args.payload = DICT
     /\ "" \in {fn_args.sender, fn_args.id, fn_args.type})
    => fn_result # "ok"

(***************************************************************************)
(* Construction and round trip (under SpecEnvelope).                       *)
(***************************************************************************)
\* C25: construction never yields an invalid envelope: for every
\* combination of arguments create_envelope either raises
\* EnvelopeValidationError or returns an envelope whose to_dict() passes
\* validate_envelope; the id of the header is a fresh one when message_id is
\* omitted and message_id itself when it is given.
C25_CreateYieldsValid ==
    fn = "create_envelope"
    => \/ fn_result.raised = "EnvelopeValidationError" /\ fn_result.envelope = <<>>
       \/ /\ fn_result.raised = "none"
          /\ validate_envelope(to_dict(fn_result.envelope[1])) = "ok"
          /\ IF fn_args.message_id = NONE
                THEN /\ next_uuid = 1
                     /\ fn_result.envelope[1].id = Uuid(next_uuid)
                ELSE /\ next_uuid = 0
                     /\ fn_result.envelope[1].id = fn_args.message_id

\* an envelope with metadata and a generated id was returned
C25_Witness ==
    /\ fn = "create_envelope"
    /\ fn_args.message_id = NONE
    /\ fn_args.metadata = DICT
    /\ fn_result.raised = "none"
    /\ to_dict(fn_result.envelope[1]).metadata = DICT
    /\ fn_result.envelope[1].id = Uuid(1)

\* the call returned the dictionary it was given
SameDict ==
    /\ fn_result.raised = "none"
    /\ fn_result.dict = <<fn_args.dict>>
    /\ fn_result.extra = fn_args.extra

\* C26 as stated: for every valid envelope dictionary d, also one whose
\* metadata is present but empty, from_dict(d).to_dict() equals d, and for
\* every envelope e built by create_envelope
\* from_dict(e.to_dict()).to_dict() equals e.to_dict().
C26_RoundTrip ==
    /\ (fn = "from_dict" /\ validate_envelope(fn_args.dict) = "ok") => SameDict
    /\ fn = "created.from_dict" => SameDict

\* C26 amended: for every valid envelope dictionary d whose only top-level
\* keys are header, payload and metadata and whose metadata, if present, is
\* not empty, from_dict(d).to_dict() equals d; for any other valid d it is d
\* without the empty metadata and without the other keys; and for every
\* envelope e built by create_envelope from_dict(e.to_dict()).to_dict()
\* equals e.to_dict().
C26_RoundTripAmended ==
    /\ (fn = "from_dict" /\ validate_envelope(fn_args.dict) = "ok")
       => /\ fn_result.raised = "none"
          /\ fn_result.dict =
                <<[fn_args.dict EXCEPT !.metadata = IF @ = EMPTY THEN ABSENT ELSE @]>>
          /\ ~fn_result.extra
          /\ (fn_args.dict.metadata # EMPTY /\ ~fn_args.extra) => SameDict
    /\ fn = "created.from_dict" => SameDict

\* a valid dictionary with a trace context and metadata came back as it was
C26_Witness ==
    /\ fn = "from_dict"
    /\ validate_envelope(fn_args.dict) = "ok"
    /\ fn_args.dict.metadata = DICT /\ ~fn_args.extra
    /\ fn_args.dict.trace_context = TraceCtx(HEX, HEX)
    /\ SameDict

(***************************************************************************)
(* The interceptor on its own: one call of HACPInterceptor.intercept,      *)
(* policy by policy.                                                       *)
(***************************************************************************)
\* policies in a chain
MaxPolicies == 3

PolicyNames == {"allow_all", "no_secret", "inbound_only"}
Chains == UNION {[1..n -> PolicyNames] : n \in 0..MaxPolicies}
InterceptMessages ==
    {Envelope(Peer, "m-1", type, ABSENT, NoTrace) : type \in {"ping", "secret"}}

\* the call has not returned or raised yet
Intercepting == fn = "intercept" /\ fn_result = <<>>

\* intercept(message, direction) on an interceptor with these policies
InterceptCall(policies, m, direction) ==
    /\ fn = "none"
    /\ fn' = "intercept"
    /\ fn_args' = [policies |-> policies, message |-> m, direction |-> direction]
    /\ fn_result' = <<>>
    /\ evaluated' = <<>>
    /\ UNCHANGED adaptervars

\* a deny does not end the call
PolicyStep_IgnoresDeny ==
    /\ Intercepting
    /\ Len(evaluated) < Len(fn_args.policies)
    /\ evaluated' = Append(evaluated, fn_args.policies[Len(evaluated) + 1])
    /\ UNCHANGED <<fn, fn_args, fn_result, adaptervars>>

\* the policies after a deny are evaluated too
PolicyStep_ContinuesAfterDeny ==
    /\ fn = "intercept"
    /\ fn_result # [raised |-> "none", message |-> <<fn_args.message>>]
    /\ Len(evaluated) < Len(fn_args.policies)
    /\ LET p == fn_args.policies[Len(evaluated) + 1] IN
       /\ evaluated' = Append(evaluated, p)
       /\ fn_result' =
             IF PolicyAllows(p, fn_args.message, fn_args.direction)
                THEN fn_result
                ELSE [raised |-> "HACPViolationError", message |-> <<>>]
    /\ UNCHANGED <<fn, fn_args, adaptervars>>

\* one iteration of `for policy in self.policies`: the policy is called, and
\* HACPViolationError is raised if it denies
PolicyStep ==
    /\ Intercepting
    /\ Len(evaluated) < Len(fn_args.policies)
    /\ LET p == fn_args.policies[Len(evaluated) + 1] IN
       /\ evaluated' = Append(evaluated, p)
       /\ fn_result' =
             IF PolicyAllows(p, fn_args.message, fn_args.direction)
                THEN <<>>
                ELSE [raised |-> "HACPViolationError", message |-> <<>>]
    /\ UNCHANGED <<fn, fn_args, adaptervars>>

\* the loop is over: return message
InterceptReturn ==
    /\ Intercepting
    /\ Len(evaluated) = Len(fn_args.policies)
    /\ fn_result' = [raised |-> "none", message |-> <<fn_args.message>>]
    /\ UNCHANGED <<fn, fn_args, evaluated, adaptervars>>

NextIntercept ==
    \/ /\ fn = "none"
       /\ \E policies \in Chains, m \in InterceptMessages, direction \in {"in", "out"} :
             InterceptCall(policies, m, direction)
    \/ PolicyStep
    \/ InterceptReturn

SpecIntercept == InitEnvelope /\ [][NextIntercept]_vars

\* the intercept call is over
Intercepted == fn = "intercept" /\ fn_result # <<>>
\* every policy of the chain allows the message in the direction of the call
AllAllow ==
    \A i \in DOMAIN fn_args.policies :
        PolicyAllows(fn_args.policies[i], fn_args.message, fn_args.direction)

\* C27: intercept(envelope, direction) returns the very envelope it was
\* given, unmodified, if and only if every policy of the chain allows it for
\* that direction (otherwise it raises HACPViolationError); an interceptor
\* with an empty chain allows every envelope in both directions.
C27_ReturnsIffAllAllow ==
    Intercepted
    => /\ AllAllow <=> fn_result = [raised |-> "none", message |-> <<fn_args.message>>]
       /\ ~AllAllow <=> fn_result = [raised |-> "HACPViolationError", message |-> <<>>]
       /\ AllAllow <=> intercept(fn_args.policies, fn_args.message, fn_args.direction)
       /\ fn_args.policies = <<>> => fn_result.raised = "none"

\* a chain of three policies that all allow an outbound message returned it
C27_Witness ==
    /\ Intercepted
    /\ Len(fn_args.policies) = 3
    /\ fn_args.direction = "out"
    /\ "no_secret" \in {fn_args.policies[i] : i \in DOMAIN fn_args.policies}
    /\ fn_result = [raised |-> "none", message |-> <<fn_args.message>>]

\* the policies before position n of the chain
Before(n) == SubSeq(fn_args.policies, 1, n - 1)
\* the positions of the policies that deny
Denying ==
    {i \in DOMAIN fn_args.policies :
        ~PolicyAllows(fn_args.policies[i], fn_args.message, fn_args.direction)}
FirstDeny == CHOOSE i \in Denying : \A j \in Denying : i <= j

\* C28: intercept evaluates the policies in list order and stops at the
\* first deny: what it has evaluated is always a prefix of the chain, each
\* policy once; when it raises, that prefix ends with the first denying
\* policy, when it returns it is the whole chain, and nothing is evaluated
\* after the call is over.
C28_StopsAtFirstDeny ==
    [][/\ fn' = "intercept"
          => /\ Len(evaluated') <= Len(fn_args'.policies)
             /\ evaluated' = SubSeq(fn_args'.policies, 1, Len(evaluated'))
       /\ Intercepted'
          => IF Denying' = {}
                THEN evaluated' = fn_args'.policies
                ELSE evaluated' = SubSeq(fn_args'.policies, 1, FirstDeny')
       /\ Intercepted => evaluated' = evaluated
      ]_vars

\* the call raised at the second of three policies, having evaluated two
C28_Witness ==
    /\ Intercepted
    /\ Len(fn_args.policies) = 3
    /\ Denying = {2, 3}
    /\ fn_result.raised = "HACPViolationError"
    /\ evaluated = SubSeq(fn_args.policies, 1, 2)

(***************************************************************************)
(* The order of the outbound pipeline (under SpecSend).                    *)
(***************************************************************************)
\* the place of a step in the pipeline the specification gives
StepRank(step) ==
    CASE step = "call" -> 0
      [] step = "intercept" -> 1
      [] step = "inject" -> 2
      [] step = "metric" -> 3
      [] step \in {"publish", "publish_raised"} -> 4

\* the steps of the pipeline with this name
StepsNamed(p, step) == {i \in DOMAIN p : p[i].step = step}
\* the total of the outbound message counter of a
OutboundCount(counter) ==
    LET types == {l[1] : l \in {k \in DOMAIN counter : k[2] = "out"}}
        RECURSIVE Sum(_)
        Sum(S) == IF S = {} THEN 0
                  ELSE LET t == CHOOSE x \in S : TRUE IN
                       counter[<<t, "out">>] + Sum(S \ {t})
    IN Sum(types)

\* a send call of agent a published in this step
SendPublished(a) ==
    /\ Len(published') = Len(published) + 1
    /\ published'[Len(published')].by = a

\* C29: for every message either send path publishes, the outbound policy
\* chain was evaluated on it first, then, with an observability stack, the
\* trace context was injected and the outbound messages_total counter
\* incremented exactly once, and only then publish was called, exactly once;
\* with neither interceptor nor observability, send_message publishes exactly
\* the message it was given.
C29_OutboundPipelineOrder ==
    [][LET p == pipeline'
           given == p[1].on
           sent == published'[Len(published')].data
       IN
       /\ Len(published') <= Len(published) + 1
       /\ SendPublished("A")
          => /\ \A i, j \in DOMAIN p : i < j => StepRank(p[i].step) < StepRank(p[j].step)
             /\ p[Len(p)] = [step |-> "publish", on |-> sent]
             /\ Hacp("A").present
                => /\ StepsNamed(p, "intercept") # {}
                   /\ \A i \in StepsNamed(p, "intercept") : p[i].on = given
                   /\ intercept(Hacp("A").policies, given, "out")
             /\ Observability("A")
                => /\ StepsNamed(p, "inject") # {}
                   /\ StepsNamed(p, "metric") # {}
                   /\ sent = inject_trace_context(given)
                   /\ OutboundCount(messages_total'["A"])
                        = OutboundCount(messages_total["A"]) + 1
             /\ ~Observability("A")
                => /\ messages_total' = messages_total
                   /\ sent = given
             /\ ~Hacp("A").present /\ ~Observability("A")
                => /\ Len(p) = 2
                   /\ p[2] = [step |-> "publish", on |-> given]
      ]_vars

\* with an interceptor and an observability stack, send_message published a
\* message after all four steps
C29_Witness ==
    /\ Hacp("A").present
    /\ Observability("A")
    /\ nsends > 0
    /\ send_result["A"].did = "published"
    /\ Len(pipeline) = 5
    /\ pipeline[5].step = "publish"
    /\ published # <<>>
    /\ published[Len(published)].data = pipeline[5].on
    /\ published[Len(published)].channel = MESSAGES

(***************************************************************************)
(* The channels: both agents listen, agent A connects and its heartbeat    *)
(* runs, A sends on both paths to either agent, and peers publish on       *)
(* every channel.  stream[x] is what pubsub.listen() hands to the receive  *)
(* loop of x.                                                              *)
(***************************************************************************)
AllChannels == {Inbox(a) : a \in Agents} \cup {ANNOUNCEMENTS, MESSAGES, HEARTBEAT}
ChannelRaw == {Envelope(Peer, "in-1", "ping", ABSENT, NoTrace)}

InitChannels ==
    /\ config = [a \in Agents |-> PlainConfig]
    /\ handlers = [a \in Agents |-> EmptyMap]
    /\ subscribed = Agents
    /\ redis_up = TRUE
    /\ Fresh

NextChannels ==
    \/ AppCall("connect")
    \/ \E id \in ThreadIds : ConnectTry(id, MaxFailures)
    \/ \E h \in HeartbeatIds : HeartbeatBeat(h)
    \/ \E channel \in AllChannels, raw \in ChannelRaw : Inject(channel, raw)
    \/ SendMessage("A", Envelope("A", "out-1", "ping", ABSENT, NoTrace))
    \/ \E t \in Tasks, target \in Agents : AsyncSend(t, target, "greet")

SpecChannels == InitChannels /\ [][NextChannels]_vars

\* what agent x's loop got in this step
Got(x) == SubSeq(stream'[x], Len(stream[x]) + 1, Len(stream'[x]))
\* agent x's loop got exactly this from this channel in this step
GotOne(x, channel, data) ==
    /\ Len(Got(x)) = 1
    /\ Got(x)[1].channel = channel
    /\ Got(x)[1].data = data

\* C30: the receive loop of agent X consumes exactly X's private inbox
\* channel and the global announcements channel; async_send_message(target,
\* ...) publishes only to the target's inbox channel; send_message publishes
\* only to the global messages channel; the heartbeat publishes only to the
\* global heartbeat channel with the agent id as payload.
C30_ChannelDiscipline ==
    [][/\ \A x \in Agents :
            /\ \A i \in DOMAIN Got(x) :
                  Got(x)[i].channel \in {Inbox(x), ANNOUNCEMENTS}
            /\ \A i \in DOMAIN Got(x), y \in Agents :
                  Got(x)[i].channel = ANNOUNCEMENTS
                  => GotOne(y, ANNOUNCEMENTS, Got(x)[i].data)
       /\ Len(published') > Len(published)
          => LET call == pipeline'[1]
                 sent == published'[Len(published')]
             IN
             /\ Len(published') = Len(published) + 1
             /\ IF call.to = ABSENT
                   THEN /\ sent.channel = MESSAGES
                        /\ \A x \in Agents : Got(x) = <<>>
                   ELSE /\ sent.channel = Inbox(call.to)
                        /\ GotOne(call.to, Inbox(call.to), sent.data)
                        /\ \A x \in Agents \ {call.to} : Got(x) = <<>>
       /\ beats' \subseteq {[channel |-> HEARTBEAT, data |-> Requester]}
       /\ beats' # beats
          => /\ published' = published
             /\ \A x \in Agents : Got(x) = <<>>
      ]_vars

\* the heartbeat has published, send_message has published, and an
\* asynchronous send to agent B is in B's stream and not in A's, which holds
\* an announcement
C30_Witness ==
    /\ beats # {}
    /\ \E i \in DOMAIN published : published[i].channel = MESSAGES
    /\ \E i \in DOMAIN published, j \in DOMAIN stream["B"] :
          /\ published[i].channel = Inbox("B")
          /\ stream["B"][j].channel = Inbox("B")
          /\ stream["B"][j].data = published[i].data
    /\ \E j \in DOMAIN stream["A"] : stream["A"][j].channel = ANNOUNCEMENTS
    /\ \A j \in DOMAIN stream["A"] : stream["A"][j].channel # Inbox("B")

(***************************************************************************)
(* Reply against timeout (under Spec).                                     *)
(***************************************************************************)
\* the slots the receive loop of the requester took out of the table in this
\* step
SlotsTaken ==
    IF Took(Requester)
        THEN DOMAIN pending_replies[Requester] \ DOMAIN pending_replies'[Requester]
        ELSE {}

\* C31: reply resolution and timeout exclude each other in every
\* interleaving: a waiter gets exactly one outcome, the reply payload or a
\* timeout error, and keeps it; a reply is never applied to a slot whose wait
\* has already timed out; and an envelope that took a slot out of
\* pending_replies delivers its payload to the waiter of that slot.
C31_ReplyTimeoutExclusive ==
    [][/\ \A t \in Tasks :
             /\ ~(tasks'[t].result # <<>> /\ tasks'[t].error = "TimeoutError")
             /\ tasks[t].pc \in {"returned", "timedout"} => tasks'[t] = tasks[t]
       /\ \A cid \in SlotsTaken :
             LET t == pending_replies[Requester][cid] IN
             /\ tasks[t].pc = "waiting"
             /\ tasks'[t].pc = "returned"
             /\ tasks'[t].result = <<PayloadOf(Taken(Requester))>>
      ]_vars

\* C32: the payload type of an envelope built by create_envelope equals the
\* message_type argument for every payload_data, one with a "type" key
\* included, and every key of payload_data is in the payload with its value.
C32_PayloadTypeIsMessageType ==
    (fn = "create_envelope" /\ fn_result.raised = "none")
    => LET payload == to_dict(fn_result.envelope[1]) IN
       /\ payload.type = fn_args.message_type
       /\ fn_args.payload_data.type # ABSENT => payload.type = fn_args.payload_data.type
       /\ payload.correlation_id = fn_args.payload_data.correlation_id

(***************************************************************************)
(* Requests: the application calls async_send_message on agent A with a   *)
(* payload of its own, several times.                                      *)
(***************************************************************************)
\* calls of async_send_message
MaxRequests == 2

\* the payloads the caller passes: with a correlation id of its own, or one
\* an earlier call returned, or none
CallerPayloads ==
    [type : {ABSENT, "other"}, correlation_id : {ABSENT, "c1", Uuid(1)}]

\* a correlation id the caller supplied is kept
Stamp_KeepsCallers(payload, cid) ==
    IF payload.correlation_id # ABSENT THEN payload
    ELSE [payload EXCEPT !.correlation_id = cid]

\* payload["correlation_id"] = correlation_id
Stamp(payload, cid) == [payload EXCEPT !.correlation_id = cid]

\* envelope.to_dict() of the envelope async_send_message builds
RequestEnvelope(a, type, payload) ==
    to_dict(CreateEnvelope([sender |-> a,
                            message_type |-> type,
                            payload_data |-> Stamp(payload, NewCorrelationId),
                            message_id |-> "id-" \o NewCorrelationId,
                            metadata |-> DICT],
                           NONE).envelope[1])

\* async_send_message(target, message_type, payload) called by the
\* application: fn_result is the correlation id it returns or the exception
\* it raises.  The only uuids the caller can put in the payload are those
\* drawn so far
Request(target, type, payload) ==
    /\ next_uuid < MaxRequests
    /\ payload.correlation_id \in {ABSENT, "c1"} \cup {Uuid(i) : i \in 1..next_uuid}
    /\ \E transport_ok \in BOOLEAN :
          LET m == RequestEnvelope(Requester, type, payload)
              outcome == EnvelopeOutcome(Requester, m, transport_ok)
          IN
          /\ async_send_envelope(Requester, target, type, m, transport_ok)
          /\ fn' = "async_send_message"
          /\ fn_args' = [target |-> target, type |-> type, payload |-> payload]
          /\ fn_result' = IF outcome = "returned"
                             THEN [raised |-> "none", returned |-> <<NewCorrelationId>>]
                             ELSE [raised |-> outcome, returned |-> <<>>]
    /\ UNCHANGED <<evaluated, registered, beats, lifevars, config, handlers,
                   pending_replies, subscribed, rx, active, calls, last, tasks,
                   send_result, ninbound, nsends>>

NextRequest ==
    \E target \in Agents, type \in RequestTypes, payload \in CallerPayloads :
        Request(target, type, payload)

SpecRequest == Init /\ [][NextRequest]_vars

\* the correlation ids of the envelopes published so far
PublishedIds == {published[i].data.correlation_id : i \in DOMAIN published}

\* C33: async_send_message returns exactly the correlation id stamped in
\* payload.correlation_id of the envelope it published; the id is fresh on
\* every call (two calls never return the same id) and replaces any
\* correlation_id the caller supplied in the payload.
C33_ReturnsStampedFreshId ==
    [][(fn' = "async_send_message" /\ next_uuid' # next_uuid
          /\ fn_result'.raised = "none")
       => LET cid == fn_result'.returned[1] IN
          /\ Len(published') = Len(published) + 1
          /\ published'[Len(published')].data.correlation_id = cid
          /\ cid \notin PublishedIds
          /\ fn_result # <<>> /\ fn_result.raised = "none"
                => cid # fn_result.returned[1]
          /\ fn_args'.payload.correlation_id # ABSENT
                => cid # fn_args'.payload.correlation_id
      ]_vars

\* the second call returned: its payload carried the id the first call had
\* returned, and the two published envelopes carry different ids
C33_Witness ==
    /\ fn = "async_send_message"
    /\ fn_args.payload.correlation_id = Uuid(1)
    /\ fn_result.raised = "none"
    /\ fn_result.returned = <<Uuid(2)>>
    /\ Len(published) = 2
    /\ published[1].data.correlation_id = Uuid(1)
    /\ published[2].data.correlation_id = Uuid(2)

(***************************************************************************)
(* The heartbeat loops of the adapter (under SpecConnect).                 *)
(***************************************************************************)
\* the heartbeat threads whose loop has not ended
LiveHeartbeats == {h \in HeartbeatIds : threads[h].pc \in {"beat", "failed", "connect"}}

\* C34: at most one heartbeat loop is active per adapter at any time, for
\* any sequence of connect() calls, heartbeat failures and reconnects: the
\* reconnect of a failed heartbeat does not leave the old loop running next
\* to a new one, and connect() on a connected adapter starts no heartbeat.
C34_OneHeartbeat == Cardinality(LiveHeartbeats) <= 1

(***************************************************************************)
(* After the stop (under SpecLife).  halted says that async_stop() has     *)
(* returned and the application has called nothing since.                  *)
(***************************************************************************)
\* C35: once async_stop() has completed the adapter stays disconnected:
\* is_connected does not become true again, and so no heartbeat is published
\* again, unless connect(), start() or async_start() is called; a heartbeat
\* loop or a connect() retry loop that was running at the stop does not
\* re-establish the connection.
C35_StaysDisconnected == halted => ~is_connected

\* a receive loop has ended on a transport error or on the lost connection
SomeLoopEnded == \E l \in DOMAIN loops : loops[l].state \in {"failed", "done"}
\* the connection was established more than once: every success of connect()
\* starts one heartbeat thread
Reconnected == Cardinality({h \in HeartbeatIds : threads[h].pc # "none"}) >= 2
\* this step, a peer published on the inbox and a receive loop got it
Ingested ==
    \E l \in DOMAIN loops : Len(loops'[l].stream) = Len(loops[l].stream) + 1

\* C36: a transport error in the receive loop does not stop ingestion for
\* good: while the adapter has not been stopped, once a receive loop has hit
\* a transport error and the connection is established again, what is then
\* published on the inbox of the agent is received.
C36_IngestionSurvives ==
    [][(ninbound' = ninbound + 1 /\ nstops = 0 /\ is_connected
          /\ SomeLoopEnded /\ Reconnected)
       => Ingested]_vars

(***************************************************************************)
(* Waiters that are cancelled: Spec, and the application cancels tasks     *)
(* that wait for a reply.                                                  *)
(***************************************************************************)
\* task.cancel() on a task suspended in async_wait_for_reply: wait_for
\* cancels the future and re-raises CancelledError, which the except clause
\* for asyncio.TimeoutError does not catch
CancelWait(t) ==
    /\ UNCHANGED lifevars
    /\ UNCHANGED auxvars
    /\ tasks[t].pc = "waiting"
    /\ tasks' = [tasks EXCEPT ![t] = [@ EXCEPT !.pc = "aborted", !.error = "CancelledError"]]
    /\ UNCHANGED <<config, handlers, pending_replies, subscribed, stream, arrivals,
                   rx, active, calls, last, messages_total, hacp_violations,
                   published, send_result, next_uuid, ninbound, nsends>>

NextWaiters ==
    \/ Next
    \/ \E t \in Tasks : CancelWait(t)

SpecWaiters == Init /\ [][NextWaiters]_vars

\* C37: every key of pending_replies belongs to a waiter that is still
\* suspended in async_wait_for_reply: when a waiter has finished by a reply,
\* by its timeout or by the cancellation of its task, its correlation id is
\* no longer in the table; and registering a wait never replaces the slot of
\* another caller that still waits.
C37_KeysBelongToWaiters ==
    [][/\ \A cid \in DOMAIN pending_replies'[Requester] :
             LET t == pending_replies'[Requester][cid] IN
             /\ tasks'[t].pc \in {"waiting", "cancelled"}
             /\ tasks'[t].cid = cid
       /\ \A cid \in DOMAIN pending_replies[Requester] \cap DOMAIN pending_replies'[Requester] :
             (pending_replies'[Requester][cid] # pending_replies[Requester][cid])
             => tasks[pending_replies[Requester][cid]].pc \notin {"waiting", "cancelled"}
      ]_vars

(***************************************************************************)
(* Handlers that raise: the receive path and the pending replies of agent  *)
(* A, in either execution model, with handlers that return or raise.       *)
(***************************************************************************)
\* the exception of the handler leaves the receive loop, which ends
HandlerRaise_EndsLoop(a) ==
    /\ UNCHANGED lifevars
    /\ UNCHANGED auxvars
    /\ active[a] # <<>>
    /\ active' = [active EXCEPT ![a] = Tail(@)]
    /\ last' = [last EXCEPT ![a] = [@ EXCEPT !.outcome = "handler_raised"]]
    /\ subscribed' = subscribed \ {a}
    /\ UNCHANGED <<config, handlers, pending_replies, stream, rx,
                   arrivals, calls, messages_total, hacp_violations,
                   published, tasks, send_result, next_uuid, ninbound, nsends>>

\* the handler raises an Exception: it passes _dispatch_message (or
\* _async_dispatch_message) and the except Exception of _handle_message (or
\* _async_handle_message) catches and logs it; the call returns to the loop
HandlerRaise(a) ==
    /\ UNCHANGED lifevars
    /\ UNCHANGED auxvars
    /\ active[a] # <<>>
    /\ active' = [active EXCEPT ![a] = Tail(@)]
    /\ last' = [last EXCEPT ![a] = [@ EXCEPT !.outcome = "handler_raised"]]
    /\ rx' = [rx EXCEPT ![a] = IF Tail(active[a]) = <<>> THEN "listen" ELSE "in_handler"]
    /\ UNCHANGED <<config, handlers, pending_replies, subscribed, stream,
                   arrivals, calls, messages_total, hacp_violations,
                   published, tasks, send_result, next_uuid, ninbound, nsends>>

NextHandlers ==
    \/ Receive("A")
    \/ HandlerReturn("A")
    \/ HandlerRaise("A")
    \/ \E raw \in InboundRaw : Inject(Inbox("A"), raw)
    \/ \E t \in Tasks : AsyncSend(t, "B", "greet")
    \/ \E t \in Tasks : WaitForReply(t)

SpecHandlers == Init /\ [][NextHandlers]_vars

\* this step, a handler of a raised
Raised(a) ==
    /\ last'[a].outcome = "handler_raised"
    /\ last[a].outcome # "handler_raised"

\* what the receive path makes of m in the execution model of a
Handled(a, m) ==
    IF config[a].mode = "thread" THEN handle_message(a, m)
                                 ELSE async_handle_message(a, m)

\* C38: a handler that raises does not end the receive loop, in either
\* execution model: the step in which it raises leaves the registry and the
\* pending table as they were, the loop stays subscribed and goes back to
\* listening with the messages still to come untouched, and the next message
\* the loop takes is handled as any message is.
C38_HandlerErrorContained ==
    [][/\ Raised("A") =>
             /\ handlers' = handlers
             /\ pending_replies' = pending_replies
             /\ "A" \in subscribed'
             /\ stream' = stream
             /\ rx'["A"] = "listen"
       /\ (last["A"].outcome = "handler_raised" /\ Took("A")) =>
             /\ last'["A"].n = last["A"].n + 1
             /\ last'["A"].outcome = Handled("A", Taken("A"))
      ]_vars

\* a handler raised while a reply was awaited and the next message was
\* already delivered: the loop listens again
C38_Witness ==
    /\ last["A"].outcome = "handler_raised"
    /\ stream["A"] # <<>>
    /\ pending_replies["A"] # EmptyMap
    /\ rx["A"] = "listen"
    /\ "A" \in subscribed

(***************************************************************************)
(* connect() under fair scheduling: the thread that called connect() is    *)
(* scheduled again and again, so an iteration of its while loop that can   *)
(* run does run.                                                           *)
(***************************************************************************)
SpecConnectFair ==
    /\ InitConnect
    /\ [][NextConnect]_vars
    /\ WF_vars(ConnectTry(APP, MaxFailures))

\* this step, the connect() call of the application returns
ConnectReturned ==
    /\ threads'[APP].pc = "none"
    /\ ncalls' # ncalls \/ threads[APP].pc = "connect"

\* a heartbeat thread has been started
HeartbeatStarted == \E h \in HeartbeatIds : threads[h].pc # "none"

\* C39: connect() returns only with is_connected true and the heartbeat
\* started; while the server cannot be reached and the adapter is not
\* connected, the call neither returns nor raises: the thread stays in the
\* loop of connect(); and if the server ends up reachable for good, a
\* connect() call that is running returns, with is_connected true.
C39_ConnectReturnsConnected ==
    /\ [][ConnectReturned => is_connected' /\ HeartbeatStarted']_vars
    /\ [][(threads[APP].pc = "connect" /\ ~is_connected /\ ~redis_up)
              => threads'[APP].pc = "connect"]_vars
    /\ (<>[]redis_up) =>
          ((threads[APP].pc = "connect") ~> (threads[APP].pc = "none" /\ is_connected))

\* connect() has returned after attempts that failed: connected, a heartbeat
\* thread runs
C39_Witness ==
    /\ ncalls >= 1
    /\ threads[APP].pc = "none"
    /\ Len(threads[APP].slept) >= 2
    /\ is_connected
    /\ \E h \in HeartbeatIds : threads[h].pc = "beat"

=============================================================================
